---- MODULE Spec2Model ----
(***************************************************************************)
(* Model of the DDMW client interface codec of tokio-ddmw                  *)
(* (src/src/clntif-codec.rs): the stateful decoder that turns a fragmented *)
(* byte stream into decode events, and the caller's mode-switch calls.     *)
(*                                                                         *)
(* Bytes are integers, byte strings are sequences of bytes, offsets are    *)
(* 0-based as in the source (SubSeq is 1-based, hence the +1).  An         *)
(* Option<T> is a sequence of length at most one: <<>> is None, <<x>> is   *)
(* Some(x).  A HashMap (blather::Params) is a set of <<key, value>> pairs  *)
(* with unique keys; blather::KVLines is a sequence of such pairs.         *)
(***************************************************************************)
EXTENDS Integers, Sequences, FiniteSets, TLC

(***************************************************************************)
(* Bounds of the model.                                                    *)
(***************************************************************************)
\* most bytes of a generated text block before its empty line
MaxBody == 5
\* most bytes of a generated run of text blocks before its last empty line
MaxText == 8
\* most bytes of a generated text block that is encoded again, before its
\* empty line
MaxEcho == 6
\* largest finite max_line_length the codec is constructed with
MaxLimit == 1
\* most bytes the transport delivers in one run of the interface machine
MaxStream == 3
\* largest size passed to a mode-switch call
MaxSize == 2
\* most mode-switch calls in one run of the interface machine
MaxSwitch == 2

(***************************************************************************)
(* Program constants.                                                      *)
(***************************************************************************)
\* b'\n', the end of a line
LF == 10
\* b'\r', stripped when it immediately precedes the line feed
CR == 13
\* ' ', separates key and value
SP == 32
\* usize::MAX, the default max_line_length ("unbounded"); the width of
\* usize is scaled down to the 31 bits of the checker's integers, and the
\* one addition on it saturates as in the source
UsizeMax == 2147483647

\* The bytes of the model: a letter, the space, the carriage return, the
\* line feed and 0xFF, a byte that occurs in no valid UTF-8 sequence.
Alphabet == {97, SP, CR, LF, 255}

\* the bytes of a generated run of text blocks
TextBytes == {97, SP, LF}

\* the bytes of a generated text block that is encoded again
EchoBytes == {97, SP, CR, LF}

\* the bytes that the transport delivers to the interface machine: a
\* letter and the line feed
ReadBytes == {97, LF}

\* the pathnames handed to expect_file
Pathnames == {"p"}

\* the pathnames that the sink driver passes to expect_file
SinkPaths == {"p", "q"}

Min(a, b) == IF a <= b THEN a ELSE b

(***************************************************************************)
(* Option values, results and decode events (enum Input).                  *)
(***************************************************************************)
NoneOpt == <<>>
Some(x) == <<x>>

\* Ok(None) of decode: more data is needed
NeedMore == [kind |-> "None"]
\* Ok(()) of a mode-switch call
OkUnit == [kind |-> "Ok"]
\* Err(Error::...)
Err(e) == [kind |-> "Err", err |-> e]
\* a panic that unwinds out of the call
Panic == [kind |-> "Panic"]

EvTelegram(tg) == [kind |-> "Telegram", tg |-> tg]
EvParams(p) == [kind |-> "Params", params |-> p]
EvKVLines(k) == [kind |-> "KVLines", kvlines |-> k]
EvChunk(data, remain) == [kind |-> "Chunk", data |-> data, remain |-> remain]
EvBuf(data) == [kind |-> "Buf", data |-> data]
EvFile(path) == [kind |-> "File", path |-> path]
EvWriteDone == [kind |-> "WriteDone"]
EvSkipDone == [kind |-> "SkipDone"]

EventKinds ==
  {"Telegram", "Params", "KVLines", "Chunk", "Buf", "File", "WriteDone",
   "SkipDone"}

IsEvent(r) == r.kind \in EventKinds
IsErr(r) == r.kind = "Err"

ErrLineLength == Err("BadFormat: Exceeded maximum line length.")
ErrUtf8 == Err("IO: Unable to decode input as UTF8")
ErrTopic == Err("Blather: Bad format; Invalid topic character")
ErrInvalidSize == Err("InvalidSize: The size must not be zero")
ErrMissingPathname == Err("BadState: Missing pathname")
ErrCreate == Err("IO: File::create")
ErrWrite == Err("IO: write_all")

(***************************************************************************)
(* enum CodecState                                                         *)
(***************************************************************************)
CodecState ==
  {"Telegram", "Params", "KVLines", "Chunks", "Buf", "File", "Writer", "Skip"}

TextStates == {"Telegram", "Params", "KVLines"}
BinaryStates == {"Chunks", "Buf", "File", "Writer", "Skip"}

(***************************************************************************)
(* The blather collaborator: Telegram, Params, KVLines.                    *)
(***************************************************************************)
\* Params::new(): an empty key -> value map
NewParams == {}

\* KVLines::new(): an empty ordered list of key/value pairs
NewKVLines == <<>>

\* Telegram::new(): no topic, no parameters
NewTelegram == [topic |-> NoneOpt, params |-> NewParams]

\* Params::add_param: insert into the map, the last write of a key wins
add_param(params, k, v) == {p \in params : p[1] # k} \cup {<<k, v>>}

\* KVLines::append: push at the end, duplicates are kept
kvappend(kvlines, k, v) == Append(kvlines, <<k, v>>)

\* the topic validation of Telegram::set_topic: no embedded whitespace
validate_topic(line) == \A i \in 1..Len(line) : line[i] \notin {SP, CR}

(***************************************************************************)
(* Helpers of the codec.                                                   *)
(***************************************************************************)
\* the addition forgotten: the scan stops one byte short
saturating_add_forgotten(a, b) == a

\* usize::saturating_add
saturating_add(a, b) == IF a > UsizeMax - b THEN UsizeMax ELSE a + b

\* slice.iter().position(|b| *b == b'\n'): the 0-based offset of the first
\* line feed of s, as an Option
position(s) ==
  IF \E i \in 1..Len(s) : s[i] = LF
    THEN Some((CHOOSE i \in 1..Len(s) :
                 s[i] = LF /\ \A j \in 1..(i - 1) : s[j] # LF) - 1)
    ELSE NoneOpt

\* str::find(' '): the 0-based offset of the first space, as an Option
find(line) ==
  IF \E i \in 1..Len(line) : line[i] = SP
    THEN Some((CHOOSE i \in 1..Len(line) :
                 line[i] = SP /\ \A j \in 1..(i - 1) : line[j] # SP) - 1)
    ELSE NoneOpt

\* fn without_carriage_return
without_carriage_return(s) ==
  IF Len(s) > 0 /\ s[Len(s)] = CR THEN SubSeq(s, 1, Len(s) - 1) ELSE s

\* fn utf8: whether std::str::from_utf8 accepts the line.  Every byte of the
\* alphabet below 128 is ASCII, and 0xFF is part of no UTF-8 sequence.
utf8(s) == \A i \in 1..Len(s) : s[i] < 128

\* the value keeps the separating space
split_at_keep_space(line, idx) ==
  <<SubSeq(line, 1, idx), SubSeq(line, idx + 1, Len(line))>>

\* the key and the value of a line that has its first space at offset idx
\* (line.split_at(idx), then the value without its leading space)
split_at(line, idx) ==
  <<SubSeq(line, 1, idx), SubSeq(line, idx + 2, Len(line))>>

(***************************************************************************)
(* struct Codec                                                            *)
(***************************************************************************)
\* Codec::new_with_max_length (Codec::new is new_with_max_length(usize::MAX))
new_with_max_length(max_line_length) ==
  [next_line_index |-> 0,
   max_line_length |-> max_line_length,
   tg |-> NewTelegram,
   params |-> NewParams,
   kvlines |-> NewKVLines,
   state |-> "Telegram",
   bin_remain |-> 0,
   pathname |-> NoneOpt,
   writer |-> NoneOpt,
   buf |-> <<>>]

\* the outcome of a call on the codec: the codec after the call, the input
\* buffer after the call and the value returned
Outcome(c, b, r) == [c |-> c, buf |-> b, ret |-> r]

\* Codec::decode_telegram_line
decode_telegram_line(c, line) ==
  IF c.tg.topic = NoneOpt
    THEN IF validate_topic(line)
           THEN [c |-> [c EXCEPT !.tg.topic = Some(line)], ret |-> OkUnit]
           ELSE [c |-> c, ret |-> ErrTopic]
    ELSE LET idx == find(line)
         IN  IF idx # NoneOpt
               THEN LET kv == split_at(line, idx[1])
                    IN  [c |-> [c EXCEPT !.tg.params =
                                           add_param(@, kv[1], kv[2])],
                         ret |-> OkUnit]
               ELSE [c |-> c, ret |-> OkUnit]

\* decode_telegram_lines_stale_offset that keeps the recorded scan offset when it has
\* found a line
RECURSIVE decode_telegram_lines_stale_offset(_, _)
decode_telegram_lines_stale_offset(c, b) ==
  LET read_to == Min(saturating_add(c.max_line_length, 1), Len(b))
  IN  IF c.next_line_index > read_to
        THEN Outcome(c, b, Panic)
        ELSE
  LET newline_offset == position(SubSeq(b, c.next_line_index + 1, read_to))
  IN  IF newline_offset # NoneOpt
        THEN LET newline_index == newline_offset[1] + c.next_line_index
                 c1 == c
                 rest == SubSeq(b, newline_index + 2, Len(b))
                 line == without_carriage_return(SubSeq(b, 1, newline_index))
             IN  IF ~utf8(line)
                   THEN Outcome(c1, rest, ErrUtf8)
                   ELSE IF line = <<>>
                          THEN Outcome([c1 EXCEPT !.tg = NewTelegram], rest,
                                       EvTelegram(c1.tg))
                          ELSE LET r == decode_telegram_line(c1, line)
                               IN  IF IsErr(r.ret)
                                     THEN Outcome(r.c, rest, r.ret)
                                     ELSE decode_telegram_lines_stale_offset(r.c, rest)
        ELSE IF Len(b) > c.max_line_length
               THEN Outcome(c, b, ErrLineLength)
               ELSE Outcome([c EXCEPT !.next_line_index = read_to], b,
                            NeedMore)

\* decode_telegram_lines that hands over a copy of the accumulated Telegram
\* and keeps the original
RECURSIVE decode_telegram_lines_keep_tg(_, _)
decode_telegram_lines_keep_tg(c, b) ==
  LET read_to == Min(saturating_add(c.max_line_length, 1), Len(b))
  IN  IF c.next_line_index > read_to
        THEN Outcome(c, b, Panic)
        ELSE
  LET newline_offset == position(SubSeq(b, c.next_line_index + 1, read_to))
  IN  IF newline_offset # NoneOpt
        THEN LET newline_index == newline_offset[1] + c.next_line_index
                 c1 == [c EXCEPT !.next_line_index = 0]
                 rest == SubSeq(b, newline_index + 2, Len(b))
                 line == without_carriage_return(SubSeq(b, 1, newline_index))
             IN  IF ~utf8(line)
                   THEN Outcome(c1, rest, ErrUtf8)
                   ELSE IF line = <<>>
                          THEN Outcome(c1, rest, EvTelegram(c1.tg))
                          ELSE LET r == decode_telegram_line(c1, line)
                               IN  IF IsErr(r.ret)
                                     THEN Outcome(r.c, rest, r.ret)
                                     ELSE decode_telegram_lines_keep_tg(r.c,
                                                                        rest)
        ELSE IF Len(b) > c.max_line_length
               THEN Outcome(c, b, ErrLineLength)
               ELSE Outcome([c EXCEPT !.next_line_index = read_to], b,
                            NeedMore)

\* Codec::decode_telegram_lines
RECURSIVE decode_telegram_lines(_, _)
decode_telegram_lines(c, b) ==
  LET read_to == Min(saturating_add(c.max_line_length, 1), Len(b))
  IN  IF c.next_line_index > read_to
        THEN Outcome(c, b, Panic)
        ELSE
  LET newline_offset == position(SubSeq(b, c.next_line_index + 1, read_to))
  IN  IF newline_offset # NoneOpt
        THEN LET newline_index == newline_offset[1] + c.next_line_index
                 c1 == [c EXCEPT !.next_line_index = 0]
                 rest == SubSeq(b, newline_index + 2, Len(b))
                 line == without_carriage_return(SubSeq(b, 1, newline_index))
             IN  IF ~utf8(line)
                   THEN Outcome(c1, rest, ErrUtf8)
                   ELSE IF line = <<>>
                          THEN Outcome([c1 EXCEPT !.tg = NewTelegram], rest,
                                       EvTelegram(c1.tg))
                          ELSE LET r == decode_telegram_line(c1, line)
                               IN  IF IsErr(r.ret)
                                     THEN Outcome(r.c, rest, r.ret)
                                     ELSE decode_telegram_lines(r.c, rest)
        ELSE IF Len(b) > c.max_line_length
               THEN Outcome(c, b, ErrLineLength)
               ELSE Outcome([c EXCEPT !.next_line_index = read_to], b,
                            NeedMore)

\* decode_params_lines that stays in state Params after the hand-over
RECURSIVE decode_params_lines_stay(_, _)
decode_params_lines_stay(c, b) ==
  LET read_to == Min(saturating_add(c.max_line_length, 1), Len(b))
  IN  IF c.next_line_index > read_to
        THEN Outcome(c, b, Panic)
        ELSE
  LET newline_offset == position(SubSeq(b, c.next_line_index + 1, read_to))
  IN  IF newline_offset # NoneOpt
        THEN LET newline_index == newline_offset[1] + c.next_line_index
                 c1 == [c EXCEPT !.next_line_index = 0]
                 rest == SubSeq(b, newline_index + 2, Len(b))
                 line == without_carriage_return(SubSeq(b, 1, newline_index))
             IN  IF ~utf8(line)
                   THEN Outcome(c1, rest, ErrUtf8)
                   ELSE IF line = <<>>
                          THEN Outcome([c1 EXCEPT !.params = NewParams],
                                       rest, EvParams(c1.params))
                          ELSE LET idx == find(line)
                               IN  IF idx # NoneOpt
                                     THEN LET kv == split_at(line, idx[1])
                                          IN  decode_params_lines_stay(
                                                [c1 EXCEPT !.params =
                                                   add_param(@, kv[1], kv[2])],
                                                rest)
                                     ELSE decode_params_lines_stay(c1, rest)
        ELSE IF Len(b) > c.max_line_length
               THEN Outcome(c, b, ErrLineLength)
               ELSE Outcome([c EXCEPT !.next_line_index = read_to], b,
                            NeedMore)

\* Codec::decode_params_lines
RECURSIVE decode_params_lines(_, _)
decode_params_lines(c, b) ==
  LET read_to == Min(saturating_add(c.max_line_length, 1), Len(b))
  IN  IF c.next_line_index > read_to
        THEN Outcome(c, b, Panic)
        ELSE
  LET newline_offset == position(SubSeq(b, c.next_line_index + 1, read_to))
  IN  IF newline_offset # NoneOpt
        THEN LET newline_index == newline_offset[1] + c.next_line_index
                 c1 == [c EXCEPT !.next_line_index = 0]
                 rest == SubSeq(b, newline_index + 2, Len(b))
                 line == without_carriage_return(SubSeq(b, 1, newline_index))
             IN  IF ~utf8(line)
                   THEN Outcome(c1, rest, ErrUtf8)
                   ELSE IF line = <<>>
                          THEN Outcome([c1 EXCEPT !.state = "Telegram",
                                                  !.params = NewParams],
                                       rest, EvParams(c1.params))
                          ELSE LET idx == find(line)
                               IN  IF idx # NoneOpt
                                     THEN LET kv == split_at(line, idx[1])
                                          IN  decode_params_lines(
                                                [c1 EXCEPT !.params =
                                                   add_param(@, kv[1], kv[2])],
                                                rest)
                                     ELSE decode_params_lines(c1, rest)
        ELSE IF Len(b) > c.max_line_length
               THEN Outcome(c, b, ErrLineLength)
               ELSE Outcome([c EXCEPT !.next_line_index = read_to], b,
                            NeedMore)

\* decode_kvlines where the recorded scan offset is kept when a line has
\* been found
RECURSIVE decode_kvlines_keep_offset(_, _)
decode_kvlines_keep_offset(c, b) ==
  LET read_to == Min(saturating_add(c.max_line_length, 1), Len(b))
  IN  IF c.next_line_index > read_to
        THEN Outcome(c, b, Panic)
        ELSE
  LET newline_offset == position(SubSeq(b, c.next_line_index + 1, read_to))
  IN  IF newline_offset # NoneOpt
        THEN LET newline_index == newline_offset[1] + c.next_line_index
                 c1 == c
                 rest == SubSeq(b, newline_index + 2, Len(b))
                 line == without_carriage_return(SubSeq(b, 1, newline_index))
             IN  IF ~utf8(line)
                   THEN Outcome(c1, rest, ErrUtf8)
                   ELSE IF line = <<>>
                          THEN Outcome([c1 EXCEPT !.state = "Telegram",
                                                  !.kvlines = NewKVLines],
                                       rest, EvKVLines(c1.kvlines))
                          ELSE LET idx == find(line)
                               IN  IF idx # NoneOpt
                                     THEN LET kv == split_at(line, idx[1])
                                          IN  decode_kvlines_keep_offset(
                                                [c1 EXCEPT !.kvlines =
                                                   kvappend(@, kv[1], kv[2])],
                                                rest)
                                     ELSE decode_kvlines_keep_offset(c1, rest)
        ELSE IF Len(b) > c.max_line_length
               THEN Outcome(c, b, ErrLineLength)
               ELSE Outcome([c EXCEPT !.next_line_index = read_to], b,
                            NeedMore)

\* Codec::decode_kvlines
RECURSIVE decode_kvlines(_, _)
decode_kvlines(c, b) ==
  LET read_to == Min(saturating_add(c.max_line_length, 1), Len(b))
  IN  IF c.next_line_index > read_to
        THEN Outcome(c, b, Panic)
        ELSE
  LET newline_offset == position(SubSeq(b, c.next_line_index + 1, read_to))
  IN  IF newline_offset # NoneOpt
        THEN LET newline_index == newline_offset[1] + c.next_line_index
                 c1 == [c EXCEPT !.next_line_index = 0]
                 rest == SubSeq(b, newline_index + 2, Len(b))
                 line == without_carriage_return(SubSeq(b, 1, newline_index))
             IN  IF ~utf8(line)
                   THEN Outcome(c1, rest, ErrUtf8)
                   ELSE IF line = <<>>
                          THEN Outcome([c1 EXCEPT !.state = "Telegram",
                                                  !.kvlines = NewKVLines],
                                       rest, EvKVLines(c1.kvlines))
                          ELSE LET idx == find(line)
                               IN  IF idx # NoneOpt
                                     THEN LET kv == split_at(line, idx[1])
                                          IN  decode_kvlines(
                                                [c1 EXCEPT !.kvlines =
                                                   kvappend(@, kv[1], kv[2])],
                                                rest)
                                     ELSE decode_kvlines(c1, rest)
        ELSE IF Len(b) > c.max_line_length
               THEN Outcome(c, b, ErrLineLength)
               ELSE Outcome([c EXCEPT !.next_line_index = read_to], b,
                            NeedMore)

\* Codec::expect_chunks
expect_chunks(c, size) ==
  [c |-> [c EXCEPT !.state = "Chunks", !.bin_remain = size], ret |-> OkUnit]

\* Codec::expect_buf
expect_buf(c, size) ==
  IF size = 0
    THEN [c |-> c, ret |-> ErrInvalidSize]
    ELSE [c |-> [c EXCEPT !.state = "Buf", !.bin_remain = size, !.buf = <<>>],
          ret |-> OkUnit]

\* the sink that File::create(pathname) opens
FileSink(pathname) == [sink |-> "file", name |-> pathname]

\* a sink supplied by the caller of expect_writer
WriterSink == [sink |-> "writer", name |-> "w"]

\* expect_file that enters state File before it looks at the size
expect_file_state_first(c, pathname, size, created) ==
  IF size = 0
    THEN [c |-> [c EXCEPT !.state = "File"], ret |-> ErrInvalidSize]
    ELSE IF ~created
           THEN [c |-> [c EXCEPT !.state = "File"], ret |-> ErrCreate]
           ELSE [c |-> [c EXCEPT !.state = "File",
                                 !.writer = Some(FileSink(pathname)),
                                 !.pathname = Some(pathname),
                                 !.bin_remain = size],
                 ret |-> OkUnit]

\* Codec::expect_file; created tells whether File::create succeeds
expect_file(c, pathname, size, created) ==
  IF size = 0
    THEN [c |-> c, ret |-> ErrInvalidSize]
    ELSE IF ~created
           THEN [c |-> [c EXCEPT !.state = "File"], ret |-> ErrCreate]
           ELSE [c |-> [c EXCEPT !.state = "File",
                                 !.writer = Some(FileSink(pathname)),
                                 !.pathname = Some(pathname),
                                 !.bin_remain = size],
                 ret |-> OkUnit]

\* Codec::expect_writer
expect_writer(c, writer, size) ==
  IF size = 0
    THEN [c |-> c, ret |-> ErrInvalidSize]
    ELSE [c |-> [c EXCEPT !.state = "Writer", !.writer = Some(writer),
                          !.bin_remain = size],
          ret |-> OkUnit]

\* Codec::expect_params
expect_params(c) == [c |-> [c EXCEPT !.state = "Params"], ret |-> OkUnit]

\* Codec::expect_kvlines
expect_kvlines(c) == [c |-> [c EXCEPT !.state = "KVLines"], ret |-> OkUnit]

\* Codec::skip
skip(c, size) ==
  IF size = 0
    THEN [c |-> c, ret |-> ErrInvalidSize]
    ELSE [c |-> [c EXCEPT !.state = "Skip", !.bin_remain = size],
          ret |-> OkUnit]

\* the Chunks arm that reports the count from before the chunk
decode_chunks_count_before(c, b) ==
  IF b = <<>>
    THEN Outcome(c, b, NeedMore)
    ELSE LET read_to == Min(c.bin_remain, Len(b))
             bin_remain == c.bin_remain - read_to
         IN  Outcome([c EXCEPT !.bin_remain = bin_remain,
                               !.state = IF bin_remain = 0
                                           THEN "Telegram" ELSE @],
                     SubSeq(b, read_to + 1, Len(b)),
                     EvChunk(SubSeq(b, 1, read_to), c.bin_remain))

\* Decoder::decode, the Chunks arm
decode_chunks(c, b) ==
  IF b = <<>>
    THEN Outcome(c, b, NeedMore)
    ELSE LET read_to == Min(c.bin_remain, Len(b))
             bin_remain == c.bin_remain - read_to
         IN  Outcome([c EXCEPT !.bin_remain = bin_remain,
                               !.state = IF bin_remain = 0
                                           THEN "Telegram" ELSE @],
                     SubSeq(b, read_to + 1, Len(b)),
                     EvChunk(SubSeq(b, 1, read_to), bin_remain))

\* the Buf arm that overwrites the accumulated bytes with the new slice
decode_buf_overwrite(c, b) ==
  IF b = <<>>
    THEN Outcome(c, b, NeedMore)
    ELSE LET read_to == Min(c.bin_remain, Len(b))
             acc == SubSeq(b, 1, read_to)
             rest == SubSeq(b, read_to + 1, Len(b))
             bin_remain == c.bin_remain - read_to
         IN  IF bin_remain # 0
               THEN Outcome([c EXCEPT !.buf = acc, !.bin_remain = bin_remain],
                            rest, NeedMore)
               ELSE Outcome([c EXCEPT !.buf = <<>>, !.bin_remain = bin_remain,
                                      !.state = "Telegram"],
                            rest, EvBuf(acc))

\* Decoder::decode, the Buf arm
decode_buf(c, b) ==
  IF b = <<>>
    THEN Outcome(c, b, NeedMore)
    ELSE LET read_to == Min(c.bin_remain, Len(b))
             acc == c.buf \o SubSeq(b, 1, read_to)
             rest == SubSeq(b, read_to + 1, Len(b))
             bin_remain == c.bin_remain - read_to
         IN  IF bin_remain # 0
               THEN Outcome([c EXCEPT !.buf = acc, !.bin_remain = bin_remain],
                            rest, NeedMore)
               ELSE Outcome([c EXCEPT !.buf = <<>>, !.bin_remain = bin_remain,
                                      !.state = "Telegram"],
                            rest, EvBuf(acc))

\* Decoder::decode, the File | Writer arm; write_ok tells whether the
\* sink's write_all succeeds
decode_file_writer(c, b, write_ok) ==
  IF b = <<>>
    THEN Outcome(c, b, NeedMore)
    ELSE LET read_to == Min(c.bin_remain, Len(b))
             \* buf.split_to(read_to) is evaluated only when a sink is there
             rest == IF c.writer # NoneOpt
                       THEN SubSeq(b, read_to + 1, Len(b)) ELSE b
             bin_remain == c.bin_remain - read_to
         IN  IF c.writer # NoneOpt /\ ~write_ok
               THEN Outcome(c, rest, ErrWrite)
               ELSE IF bin_remain # 0
                      THEN Outcome([c EXCEPT !.bin_remain = bin_remain], rest,
                                   NeedMore)
                      ELSE LET c1 == [c EXCEPT !.bin_remain = bin_remain,
                                               !.writer = NoneOpt]
                           IN  IF c.state = "File"
                                 THEN IF c.pathname # NoneOpt
                                        THEN Outcome(
                                               [c1 EXCEPT
                                                  !.pathname = NoneOpt,
                                                  !.state = "Telegram"],
                                               rest, EvFile(c.pathname[1]))
                                        ELSE Outcome(c1, rest,
                                                     ErrMissingPathname)
                                 ELSE Outcome([c1 EXCEPT !.state = "Telegram"],
                                              rest, EvWriteDone)

\* the Skip arm that drops all the bytes of the input buffer
decode_skip_whole(c, b) ==
  IF b = <<>>
    THEN Outcome(c, b, NeedMore)
    ELSE LET read_to == Min(c.bin_remain, Len(b))
             bin_remain == c.bin_remain - read_to
         IN  IF bin_remain # 0
               THEN Outcome([c EXCEPT !.bin_remain = bin_remain], <<>>,
                            NeedMore)
               ELSE Outcome([c EXCEPT !.bin_remain = bin_remain,
                                      !.state = "Telegram"],
                            <<>>, EvSkipDone)

\* Decoder::decode, the Skip arm
decode_skip(c, b) ==
  IF b = <<>>
    THEN Outcome(c, b, NeedMore)
    ELSE LET read_to == Min(c.bin_remain, Len(b))
             rest == SubSeq(b, read_to + 1, Len(b))
             bin_remain == c.bin_remain - read_to
         IN  IF bin_remain # 0
               THEN Outcome([c EXCEPT !.bin_remain = bin_remain], rest,
                            NeedMore)
               ELSE Outcome([c EXCEPT !.bin_remain = bin_remain,
                                      !.state = "Telegram"],
                            rest, EvSkipDone)

\* the File | Writer arm where the sink is given the whole input buffer
write_slice_whole(c, b) ==
  IF c.state \in {"File", "Writer"} /\ b # <<>> /\ c.writer # NoneOpt
    THEN b
    ELSE <<>>

\* the bytes that the File | Writer arm passes to write_all of the sink:
\* buf.split_to(read_to)
write_slice(c, b) ==
  IF c.state \in {"File", "Writer"} /\ b # <<>> /\ c.writer # NoneOpt
    THEN SubSeq(b, 1, Min(c.bin_remain, Len(b)))
    ELSE <<>>

\* <Codec as Decoder>::decode
decode(c, b, write_ok) ==
  CASE c.state = "Telegram" -> decode_telegram_lines(c, b)
    [] c.state = "Params" -> decode_params_lines(c, b)
    [] c.state = "KVLines" -> decode_kvlines(c, b)
    [] c.state = "Chunks" -> decode_chunks(c, b)
    [] c.state = "Buf" -> decode_buf(c, b)
    [] c.state \in {"File", "Writer"} -> decode_file_writer(c, b, write_ok)
    [] c.state = "Skip" -> decode_skip(c, b)

(***************************************************************************)
(* The encoders.                                                           *)
(***************************************************************************)
ErrNoTopic == Err("Blather: Missing Telegram topic")

\* the lines without the space between key and value
RECURSIVE kv_lines_no_space(_)
kv_lines_no_space(ord) ==
  IF ord = <<>>
    THEN <<>>
    ELSE Head(ord)[1] \o Head(ord)[2] \o <<LF>>
           \o kv_lines_no_space(Tail(ord))

\* the loop of Encoder<&HashMap<String, String>>: key, space, value and
\* line feed of every pair, in the order ord in which the map iterates
RECURSIVE kv_lines(_)
kv_lines(ord) ==
  IF ord = <<>>
    THEN <<>>
    ELSE Head(ord)[1] \o <<SP>> \o Head(ord)[2] \o <<LF>>
           \o kv_lines(Tail(ord))

\* Encoder<&HashMap<String, String>>::encode: the bytes put into the
\* output buffer
encode_hashmap(ord) == [ret |-> OkUnit, bytes |-> kv_lines(ord) \o <<LF>>]

\* Encoder<&Telegram>::encode, Telegram::encoder_write: the topic line,
\* the lines of the parameters and the empty line
encode_telegram(tg, ord) ==
  IF tg.topic = NoneOpt
    THEN [ret |-> ErrNoTopic, bytes |-> <<>>]
    ELSE [ret |-> OkUnit,
          bytes |-> tg.topic[1] \o <<LF>> \o kv_lines(ord) \o <<LF>>]

\* the orders in which a map of pairs can iterate
Orders(m) ==
  {ord \in [1..Cardinality(m) -> m] :
     \A i, j \in 1..Cardinality(m) : i # j => ord[i] # ord[j]}

(***************************************************************************)
(* The state of one connection.                                            *)
(***************************************************************************)
VARIABLES
  codec,   \* the Codec bound to the connection
  buf,     \* the input buffer that the read loop hands to decode
  ret,     \* the last call: its name, its size argument and what it returned
  files,   \* the pathnames that File::create has created
  sw,      \* the last mode-switch call that took effect
  inq,     \* the bytes of the stream that were unconsumed at that call or
           \* have arrived since, in order
  evs,     \* the events that decode has returned since that call
  partial, \* whether a decode call since then has taken in a part of what
           \* is expected and asked for more data
  first,   \* the first value other than need-more-data that decode has
           \* returned to the block driver
  nread,   \* the number of bytes the transport has delivered
  nsw,     \* the number of mode-switch calls made
  block,   \* the text block that the peer sends (block driver)
  fed,     \* how many bytes of block have been appended to buf
  out,     \* the bytes that decode has passed to write_all of the sink
           \* since the last mode-switch call that took effect
  werr,    \* whether a write_all of the sink has failed since then
  ai,      \* the AuthInfo that authenticate is called with
  disk,    \* the file system: the content of the file at each path, if any
  sent,    \* the frames written to the connection, in order
  rcvd,    \* the decode events and errors read from the connection, in order
  pc,      \* the position of the authentication call
  xr,      \* the last call of token, accpass or expect_okfail that has
           \* returned, and what it returned
  res,     \* what the call has returned, if it has
  mi,      \* the MsgInfo that send is called with
  xfer,    \* the ConnTransport that connsend is called with
  usz,     \* the width in bits of usize on the target
  xferid   \* the transfer identifier that send has extracted, if any

\* the state of the codec and its drivers
codecvars ==
  <<codec, buf, ret, files, sw, inq, evs, partial, first, nread, nsw, block,
    fed, out, werr>>

\* the state of an authentication call
authvars == <<ai, disk, sent, rcvd, pc, xr, res>>

\* the state of a call of send or connsend
msgvars == <<mi, xfer, usz, xferid>>

vars == <<codecvars, authvars, msgvars>>

Call(op, arg, val) == [op |-> op, arg |-> arg, val |-> val]

(***************************************************************************)
(* Authentication (src/src/auth.rs) and the request/response helper        *)
(* (src/src/lib.rs, src/src/clntif-util.rs).  Texts are byte strings, as   *)
(* in the codec.                                                           *)
(***************************************************************************)
\* "Auth", "Ok", "Fail"
TopicAuth == <<65, 117, 116, 104>>
TopicOk == <<79, 107>>
TopicFail == <<70, 97, 105, 108>>
\* "Tkn", "AccName", "Pass", "ReqTkn", "True"
KeyTkn == <<84, 107, 110>>
KeyAccName == <<65, 99, 99, 78, 97, 109, 101>>
KeyPass == <<80, 97, 115, 115>>
KeyReqTkn == <<82, 101, 113, 84, 107, 110>>
ValTrue == <<84, 114, 117, 101>>
\* the length that a token read from a file is truncated to
TknLen == 32

\* the token that the caller holds, the token that the server issues, the
\* content of an output file that exists beforehand, the account name and
\* the passphrase
InputToken == <<116>>
IssuedToken == <<117, 118>>
OldContent == <<111>>
AccNameVal == <<97>>
PassVal == <<112>>

\* the paths of the token files
Paths == {"tkn", "out"}

\* enum Token
TokenBuf(s) == [kind |-> "Buf", s |-> s]
TokenFile(fname) == [kind |-> "File", fname |-> fname]

\* struct AuthInfo
AuthInfos ==
  [accpass : {NoneOpt, Some(<<AccNameVal, PassVal>>)},
   itkn : {NoneOpt, Some(TokenBuf(InputToken)), Some(TokenFile("tkn"))},
   otkn : {NoneOpt} \cup {Some(p) : p \in Paths}]

\* the file systems that authenticate starts with
Disks ==
  {[tkn |-> t, out |-> o] : t \in {NoneOpt, Some(InputToken)},
                            o \in {NoneOpt, Some(OldContent)}}

\* Ok(v)
OkVal(v) == [kind |-> "Ok", val |-> v]

\* enum Error
ErrIO == Err("IO")
ErrBadState == Err("BadState: Unexpected reply from server.")
ErrInvalidCredentials == Err("InvalidCredentials")
ErrDisconnected == Err("Disconnected")
ServerError(params) == [kind |-> "Err", err |-> "ServerError", params |-> params]

\* an error of the blather codec
BlatherError(msg) == [kind |-> "Err", err |-> msg, of |-> "blather::Error"]

\* From<blather::Error> for Error: Error::Blather(err.to_string())
from_blather(e) == [kind |-> "Err", err |-> "Blather", msg |-> e.err]

\* Params::get_str
get_str(params, key) ==
  IF \E p \in params : p[1] = key
    THEN Some((CHOOSE p \in params : p[1] = key)[2])
    ELSE NoneOpt

\* String::truncate: no effect on a shorter string, a panic when the cut
\* is not on a character boundary (before a UTF-8 continuation byte)
truncate(s, new_len) ==
  IF new_len >= Len(s)
    THEN [ret |-> OkUnit, s |-> s]
    ELSE IF s[new_len + 1] \in 128..191
           THEN [ret |-> Panic, s |-> s]
           ELSE [ret |-> OkUnit, s |-> SubSeq(s, 1, new_len)]

\* a reply helper that takes a Fail telegram for an unexpected reply
expect_okfail_fail_unexpected(item) ==
  IF item = NoneOpt
    THEN ErrDisconnected
    ELSE LET o == item[1]
         IN  IF IsErr(o)
               THEN from_blather(o)
               ELSE IF o.kind = "Telegram" /\ o.tg.topic = Some(TopicOk)
                      THEN OkVal(o.tg.params)
                      ELSE ErrBadState

\* expect_okfail of lib.rs on the item that conn.next() yields: NoneOpt at
\* the end of the stream, else a decode event or an error of the blather
\* codec
expect_okfail(item) ==
  IF item = NoneOpt
    THEN ErrDisconnected
    ELSE LET o == item[1]
         IN  IF IsErr(o)
               THEN from_blather(o)
               ELSE IF o.kind = "Telegram" /\ o.tg.topic = Some(TopicOk)
                      THEN OkVal(o.tg.params)
                      ELSE IF o.kind = "Telegram"
                                /\ o.tg.topic = Some(TopicFail)
                             THEN ServerError(o.tg.params)
                             ELSE ErrBadState

\* expect_okfail of clntif-util.rs: the codec is this crate's, its error is
\* this crate's Error, and the end of the stream is a panic
clntif_expect_okfail(item) ==
  IF item = NoneOpt
    THEN Panic
    ELSE LET o == item[1]
         IN  IF IsErr(o)
               THEN o
               ELSE IF o.kind = "Telegram" /\ o.tg.topic = Some(TopicOk)
                      THEN OkVal(o.tg.params)
                      ELSE IF o.kind = "Telegram"
                                /\ o.tg.topic = Some(TopicFail)
                             THEN ServerError(o.tg.params)
                             ELSE ErrBadState

\* the frames that token and accpass build
TokenFrame(tkn) ==
  [topic |-> Some(TopicAuth), params |-> add_param(NewParams, KeyTkn, tkn)]

AccPassFrame(accname, pass, reqtkn) ==
  LET p == add_param(add_param(NewParams, KeyAccName, accname), KeyPass, pass)
  IN  [topic |-> Some(TopicAuth),
       params |-> IF reqtkn THEN add_param(p, KeyReqTkn, ValTrue) ELSE p]

\* token authentication attempted whether or not the token file exists
do_tknauth_any_file == ai.itkn # NoneOpt

\* whether authenticate attempts token authentication
do_tknauth ==
  /\ ai.itkn # NoneOpt
  /\ ai.itkn[1].kind = "File" => disk[ai.itkn[1].fname] # NoneOpt

\* no call has returned
NoCall == [call |-> "none", val |-> OkUnit, rr |-> OkUnit]

\* no authentication call is made
NoAuth ==
  /\ ai = [accpass |-> NoneOpt, itkn |-> NoneOpt, otkn |-> NoneOpt]
  /\ disk = [p \in Paths |-> NoneOpt]
  /\ sent = <<>>
  /\ rcvd = <<>>
  /\ pc = "idle"
  /\ xr = NoCall
  /\ res = NoneOpt

(***************************************************************************)
(* Message transfer (src/src/msg.rs).  A size is a number below 2^48 held  *)
(* as three 16-bit limbs, hi * 2^32 + mid * 2^16 + lo, so that sizes on    *)
(* both sides of 2^32 keep their true values.                              *)
(***************************************************************************)
Limb == 65536

Sz(a, b, c) == [hi |-> a, mid |-> b, lo |-> c]

Zero == Sz(0, 0, 0)
One == Sz(0, 0, 1)
U32Max == Sz(0, Limb - 1, Limb - 1)

\* sz as u32: the low 32 bits
as_u32(sz) == [sz EXCEPT !.hi = 0]

\* a u64 as usize: the low 32 bits on a 32-bit target
as_usize(sz, bits) == IF bits = 32 THEN as_u32(sz) ELSE sz

\* sz as u64, from a usize
as_u64(sz) == sz

\* n / 10 and n % 10 by long division over the limbs
Div10(n) ==
  LET c1 == n.hi
      c2 == (c1 % 10) * Limb + n.mid
      c3 == (c2 % 10) * Limb + n.lo
  IN  Sz(c1 \div 10, c2 \div 10, c3 \div 10)

Mod10(n) == ((((n.hi % 10) * Limb + n.mid) % 10) * Limb + n.lo) % 10

\* to_string of an unsigned integer: its decimal digits
RECURSIVE to_string(_)
to_string(n) ==
  IF Div10(n) = Zero
    THEN <<48 + Mod10(n)>>
    ELSE Append(to_string(Div10(n)), 48 + Mod10(n))

TopicMsg == <<77, 115, 103>>
KeyCh == <<95, 67, 104>>
KeyCmd == <<67, 109, 100>>
KeyMetaLen == <<77, 101, 116, 97, 76, 101, 110>>
KeyLen == <<76, 101, 110>>
KeyXferId == <<88, 102, 101, 114, 73, 100>>
XferIdVal == <<120>>

ErrMissingData == Err("MissingData: Missing expected transfer identifier")

\* enum InputType by its byte length: a Params buffer of calc_buf_size()
\* bytes, a file of len bytes that fs::metadata can or cannot reach, a
\* vector or a Bytes of len bytes
InputParams(n) == [kind |-> "Params", len |-> n, readable |-> TRUE]
InputFile(n, r) == [kind |-> "File", len |-> n, readable |-> r]
InputVecBuf(n) == [kind |-> "VecBuf", len |-> n, readable |-> TRUE]
InputBytes(n) == [kind |-> "Bytes", len |-> n, readable |-> TRUE]

\* the size that get_meta_size and get_payload_size take from a content
content_size(sec, bits) ==
  IF sec = NoneOpt
    THEN OkVal(Zero)
    ELSE IF sec[1].kind = "File"
           THEN IF sec[1].readable
                  THEN OkVal(as_usize(sec[1].len, bits))
                  ELSE ErrIO
           ELSE OkVal(sec[1].len)

\* get_meta_size: Ok(sz as u32)
get_meta_size(m, bits) ==
  LET sz == content_size(m.meta, bits)
  IN  IF IsErr(sz) THEN sz ELSE OkVal(as_u32(sz.val))

\* get_payload_size: Ok(sz as u64)
get_payload_size(m, bits) ==
  LET sz == content_size(m.payload, bits)
  IN  IF IsErr(sz) THEN sz ELSE OkVal(as_u64(sz.val))

\* the Msg telegram that send builds
MsgFrame(ch, cmd, metalen, payloadlen) ==
  LET p1 == add_param(NewParams, KeyCh, to_string(Sz(0, 0, ch)))
      p2 == IF cmd # 0 THEN add_param(p1, KeyCmd, to_string(Sz(0, 0, cmd)))
                       ELSE p1
      p3 == IF metalen # Zero
              THEN add_param(p2, KeyMetaLen, to_string(metalen)) ELSE p2
      p4 == IF payloadlen # Zero
              THEN add_param(p3, KeyLen, to_string(payloadlen)) ELSE p3
  IN  [topic |-> Some(TopicMsg), params |-> p4]

\* what send_content has written to the connection for a section
Content(sec, n) == [kind |-> "Content", section |-> sec, len |-> n]

IsFrame(x) == "topic" \in DOMAIN x

NoXfer == [call |-> "none"]

\* neither send nor connsend is called
NoMsg ==
  /\ mi = [cmd |-> 0, meta |-> NoneOpt, payload |-> NoneOpt]
  /\ xfer = NoXfer
  /\ usz = 64
  /\ xferid = NoneOpt

\* the values of max_line_length that a codec is constructed with
Limits == (0..MaxLimit) \cup {UsizeMax}

\* all sequences over S of length at most n
BoundedSeq(S, n) == UNION {[1..m -> S] : m \in 0..n}

RECURSIVE Flatten(_)
Flatten(ss) == IF ss = <<>> THEN <<>> ELSE Head(ss) \o Flatten(Tail(ss))

\* the empty line that ends a text block
Terminators == {<<LF>>, <<CR, LF>>}

\* s is a run of non-empty lines, each with its line feed; a line that
\* holds a lone carriage return is an empty line
NonEmptyLines(s) ==
  /\ s # <<>> => s[Len(s)] = LF
  /\ \A i \in 1..Len(s) :
       s[i] = LF
         => /\ i > 1
            /\ s[i - 1] # LF
            /\ ~(s[i - 1] = CR /\ (i = 2 \/ s[i - 2] = LF))

\* the complete text blocks: non-empty lines, then one empty line
Blocks ==
  {s \o t : s \in {x \in BoundedSeq(Alphabet, MaxBody) : NonEmptyLines(x)},
            t \in Terminators}

\* the line limits of the interface machine: that of Codec::new, and the
\* largest finite one
MachineLimits == {MaxLimit, UsizeMax}

\* the state after construction (Codec::new / Codec::new_with_max_length)
Init ==
  /\ \E l \in MachineLimits : codec = new_with_max_length(l)
  /\ buf = <<>>
  /\ ret = Call("new", NoneOpt, OkUnit)
  /\ files = {}
  /\ sw = Call("new", NoneOpt, OkUnit)
  /\ inq = <<>>
  /\ evs = <<>>
  /\ partial = FALSE
  /\ first = NoneOpt
  /\ nread = 0
  /\ nsw = 0
  /\ block = <<>>
  /\ fed = 0
  /\ out = <<>>
  /\ werr = FALSE
  /\ NoAuth
  /\ NoMsg

\* a panic ends the task that owns the connection
Alive == ret.val # Panic

\* the transport yields one more byte, which the read loop appends to the
\* input buffer
Read(b) ==
  /\ Alive
  /\ nread < MaxStream
  /\ buf' = Append(buf, b)
  /\ inq' = Append(inq, b)
  /\ nread' = nread + 1
  /\ ret' = Call("read", NoneOpt, OkUnit)
  /\ UNCHANGED <<codec, files, sw, evs, partial, first, nsw, block, fed, out,
               werr>>
  /\ UNCHANGED <<authvars, msgvars>>

\* the read loop calls decode on the input buffer
Decode(write_ok) ==
  /\ Alive
  /\ LET o == decode(codec, buf, write_ok)
     IN  /\ codec' = o.c
         /\ buf' = o.buf
         /\ ret' = Call("decode", NoneOpt, o.ret)
         /\ evs' = IF IsEvent(o.ret) THEN Append(evs, o.ret) ELSE evs
         /\ partial' = (partial \/ (o.ret = NeedMore /\ o.c # codec))
         /\ out' = out \o write_slice(codec, buf)
         /\ werr' = (werr \/ o.ret = ErrWrite)
  /\ UNCHANGED <<files, sw, inq, first, nread, nsw, block, fed>>
  /\ UNCHANGED <<authvars, msgvars>>

\* the caller makes the mode-switch call op(arg), of outcome o; a call
\* that is rejected for its size leaves the earlier mode in force
Switch(op, arg, o) ==
  /\ Alive
  /\ nsw < MaxSwitch
  /\ codec' = o.c
  /\ ret' = Call(op, arg, o.ret)
  /\ nsw' = nsw + 1
  /\ IF o.ret = ErrInvalidSize
       THEN UNCHANGED <<sw, inq, evs, partial, out, werr>>
       ELSE /\ sw' = Call(op, arg, o.ret)
            /\ inq' = buf
            /\ evs' = <<>>
            /\ partial' = FALSE
            /\ out' = <<>>
            /\ werr' = FALSE
  /\ UNCHANGED <<buf, first, nread, block, fed>>
  /\ UNCHANGED <<authvars, msgvars>>

ExpectParams ==
  /\ Switch("expect_params", NoneOpt, expect_params(codec))
  /\ UNCHANGED files

ExpectKVLines ==
  /\ Switch("expect_kvlines", NoneOpt, expect_kvlines(codec))
  /\ UNCHANGED files

ExpectChunks(size) ==
  /\ Switch("expect_chunks", Some(size), expect_chunks(codec, size))
  /\ UNCHANGED files

ExpectBuf(size) ==
  /\ Switch("expect_buf", Some(size), expect_buf(codec, size))
  /\ UNCHANGED files

ExpectFile(pathname, size, created) ==
  /\ Switch("expect_file", <<size, pathname>>,
            expect_file(codec, pathname, size, created))
  /\ files' = IF size # 0 /\ created THEN files \cup {pathname} ELSE files

ExpectWriter(size) ==
  /\ Switch("expect_writer", Some(size),
            expect_writer(codec, WriterSink, size))
  /\ UNCHANGED files

Skip(size) ==
  /\ Switch("skip", Some(size), skip(codec, size))
  /\ UNCHANGED files

\* The interface machine: the transport delivers bytes, the read loop
\* decodes, and the caller switches mode, in any order.
Next ==
  \/ \E b \in ReadBytes : Read(b)
  \/ \E write_ok \in BOOLEAN : Decode(write_ok)
  \/ ExpectParams
  \/ ExpectKVLines
  \/ \E size \in 0..MaxSize : ExpectChunks(size)
  \/ \E size \in 0..MaxSize : ExpectBuf(size)
  \/ \E pathname \in Pathnames, size \in 0..MaxSize, created \in BOOLEAN :
       ExpectFile(pathname, size, created)
  \/ \E size \in 0..MaxSize : ExpectWriter(size)
  \/ \E size \in 0..MaxSize : Skip(size)

Spec == Init /\ [][Next]_vars

(***************************************************************************)
(* The sink driver: the caller asks only for transfers to a file, to a     *)
(* writer, or to nowhere, while the transport delivers bytes and the read  *)
(* loop decodes, in any order.                                             *)
(***************************************************************************)
NextSink ==
  \/ \E b \in ReadBytes : Read(b)
  \/ \E write_ok \in BOOLEAN : Decode(write_ok)
  \/ \E pathname \in SinkPaths, size \in 0..MaxSize, created \in BOOLEAN :
       ExpectFile(pathname, size, created)
  \/ \E size \in 0..MaxSize : ExpectWriter(size)
  \/ \E size \in 0..MaxSize : Skip(size)

SpecSink == Init /\ [][NextSink]_vars

(***************************************************************************)
(* The event driver: the transport appends bytes to the input buffer, the  *)
(* read loop decodes, and the caller switches mode only on a new codec or  *)
(* in answer to the event that decode has just returned.                   *)
(***************************************************************************)
AfterEvent == ret.op = "new" \/ (ret.op = "decode" /\ IsEvent(ret.val))

NextEvent ==
  \/ \E b \in ReadBytes : Read(b)
  \/ \E write_ok \in BOOLEAN : Decode(write_ok)
  \/ AfterEvent /\ ExpectParams
  \/ AfterEvent /\ ExpectKVLines
  \/ AfterEvent /\ \E size \in 0..MaxSize : ExpectChunks(size)
  \/ AfterEvent /\ \E size \in 0..MaxSize : ExpectBuf(size)
  \/ AfterEvent /\ \E pathname \in Pathnames, size \in 0..MaxSize,
                      created \in BOOLEAN :
                    ExpectFile(pathname, size, created)
  \/ AfterEvent /\ \E size \in 0..MaxSize : ExpectWriter(size)
  \/ AfterEvent /\ \E size \in 0..MaxSize : Skip(size)

SpecEvent == Init /\ [][NextEvent]_vars

(***************************************************************************)
(* The block driver: the peer sends one complete text block, which reaches *)
(* the input buffer in fragments, with one decode call after each          *)
(* fragment, as the read loop of Framed does.                              *)
(***************************************************************************)
InitBlock ==
  /\ \E l \in Limits : codec = new_with_max_length(l)
  /\ buf = <<>>
  /\ ret = Call("new", NoneOpt, OkUnit)
  /\ files = {}
  /\ sw = Call("new", NoneOpt, OkUnit)
  /\ inq = <<>>
  /\ evs = <<>>
  /\ partial = FALSE
  /\ first = NoneOpt
  /\ nread = 0
  /\ nsw = 0
  /\ block \in Blocks
  /\ fed = 0
  /\ out = <<>>
  /\ werr = FALSE
  /\ NoAuth
  /\ NoMsg

\* the next k bytes of the block are appended to the input buffer and
\* decode is called
Feed(k) ==
  /\ Alive
  /\ fed + k <= Len(block)
  /\ LET o == decode(codec, buf \o SubSeq(block, fed + 1, fed + k), TRUE)
     IN  /\ codec' = o.c
         /\ buf' = o.buf
         /\ ret' = Call("decode", NoneOpt, o.ret)
         /\ evs' = IF IsEvent(o.ret) THEN Append(evs, o.ret) ELSE evs
         /\ partial' = (partial \/ (o.ret = NeedMore /\ o.c # codec))
         /\ first' = IF first = NoneOpt /\ o.ret # NeedMore
                       THEN Some(o.ret) ELSE first
  /\ fed' = fed + k
  /\ inq' = inq \o SubSeq(block, fed + 1, fed + k)
  /\ nread' = nread + k
  /\ UNCHANGED <<files, sw, nsw, block, out, werr>>
  /\ UNCHANGED <<authvars, msgvars>>

NextBlock ==
  \/ ret.op = "new" /\ ExpectParams
  \/ ret.op = "new" /\ ExpectKVLines
  \/ \E k \in 1..(Len(block) - fed) : Feed(k)

SpecBlock == InitBlock /\ [][NextBlock]_vars

(***************************************************************************)
(* The echo driver: the codec decodes one text block, the caller encodes   *)
(* the Telegram of the event, or its parameters as a map, the peer sends   *)
(* the encoded bytes back and the codec decodes them.                      *)
(***************************************************************************)
EchoBlocks ==
  {s \o <<LF>> : s \in {x \in BoundedSeq(EchoBytes, MaxEcho) :
                          x # <<>> /\ NonEmptyLines(x)}}

InitEcho ==
  /\ \E l \in Limits : codec = new_with_max_length(l)
  /\ buf = <<>>
  /\ ret = Call("new", NoneOpt, OkUnit)
  /\ files = {}
  /\ sw = Call("new", NoneOpt, OkUnit)
  /\ inq = <<>>
  /\ evs = <<>>
  /\ partial = FALSE
  /\ first = NoneOpt
  /\ nread = 0
  /\ nsw = 0
  /\ block \in EchoBlocks
  /\ fed = 0
  /\ out = <<>>
  /\ werr = FALSE
  /\ NoAuth
  /\ NoMsg

\* the bytes that an encoder has put out come back as input
Echo(op, o) ==
  /\ Alive
  /\ ret.op = "decode"
  /\ ret.val.kind = "Telegram"
  /\ Len(evs) = 1
  /\ sw.op = "new"
  /\ buf' = buf \o o.bytes
  /\ inq' = inq \o o.bytes
  /\ ret' = Call(op, NoneOpt, o.ret)
  /\ UNCHANGED <<codec, files, sw, evs, partial, first, nread, nsw, block, out, werr,
                 fed>>
  /\ UNCHANGED <<authvars, msgvars>>

\* the Telegram of the event is encoded
EncodeTelegram(ord) == Echo("encode_telegram", encode_telegram(ret.val.tg, ord))

\* the parameters of the event are encoded as a map
EncodeHashMap(ord) == Echo("encode_hashmap", encode_hashmap(ord))

NextEcho ==
  \/ fed = 0 /\ Feed(Len(block))
  \/ /\ ret.val.kind = "Telegram"
     /\ \E ord \in Orders(ret.val.tg.params) : EncodeTelegram(ord)
  \/ /\ ret.val.kind = "Telegram"
     /\ \E ord \in Orders(ret.val.tg.params) : EncodeHashMap(ord)
  \/ ret.op = "encode_hashmap" /\ ExpectParams
  \/ ret.op \in {"encode_telegram", "expect_params"} /\ Decode(TRUE)

SpecEcho == InitEcho /\ [][NextEcho]_vars

(***************************************************************************)
(* The run driver: the peer sends a run of complete text blocks, which     *)
(* reaches the input buffer in one piece; the read loop calls decode until *)
(* it asks for more data.                                                  *)
(***************************************************************************)
\* the runs of complete text blocks: text whose last line is empty
Runs ==
  {s \o t : s \in {x \in BoundedSeq(TextBytes, MaxText) :
                      x # <<>> => x[Len(x)] = LF},
            t \in Terminators}

InitRun ==
  /\ \E l \in Limits : codec = new_with_max_length(l)
  /\ buf = <<>>
  /\ ret = Call("new", NoneOpt, OkUnit)
  /\ files = {}
  /\ sw = Call("new", NoneOpt, OkUnit)
  /\ inq = <<>>
  /\ evs = <<>>
  /\ partial = FALSE
  /\ first = NoneOpt
  /\ nread = 0
  /\ nsw = 0
  /\ block \in Runs
  /\ fed = 0
  /\ out = <<>>
  /\ werr = FALSE
  /\ NoAuth
  /\ NoMsg

NextRun ==
  \/ ret.op = "new" /\ ExpectParams
  \/ ret.op = "new" /\ ExpectKVLines
  \/ fed = 0 /\ Feed(Len(block))
  \/ fed > 0 /\ Decode(TRUE)

SpecRun == InitRun /\ [][NextRun]_vars

(***************************************************************************)
(* The authentication driver: one call of authenticate (auth.rs) or of the *)
(* authenticate of clntif-util.rs on a fresh connection; the peer's        *)
(* replies, the outcome of every send and of every file operation are      *)
(* inputs.                                                                 *)
(***************************************************************************)
\* what conn.next() can yield to expect_okfail of lib.rs
ReplyParams == {NewParams, add_param(NewParams, KeyTkn, IssuedToken)}

ReplyTelegrams ==
  {EvTelegram([topic |-> t, params |-> p]) :
     t \in {NoneOpt, Some(TopicOk), Some(TopicFail), Some(TopicAuth)},
     p \in ReplyParams}

Items ==
  {NoneOpt} \cup {Some(e) : e \in ReplyTelegrams}
    \cup {Some(EvParams(NewParams)), Some(BlatherError("IO"))}

\* what conn.next() can yield to expect_okfail of clntif-util.rs
ClntifItems ==
  {NoneOpt} \cup {Some(e) : e \in ReplyTelegrams}
    \cup {Some(EvParams(NewParams)), Some(ErrUtf8)}

\* what conn.send() can return on a blather codec and on this crate's
SendOutcomes == {OkUnit, BlatherError("IO")}
ClntifSendOutcomes == {OkUnit, ErrIO}

\* what f.write(bytes) can return: an error, or the number of bytes that
\* it has written
WriteOutcomes(bytes) == {ErrIO} \cup {OkVal(n) : n \in 0..Len(bytes)}

\* enum Auth of clntif-util.rs
Auths ==
  {[kind |-> "AccPass", acc |-> AccNameVal, pass |-> PassVal],
   [kind |-> "Token", tkn |-> InputToken]}

InitAuth ==
  /\ codec = new_with_max_length(UsizeMax)
  /\ buf = <<>>
  /\ ret = Call("new", NoneOpt, OkUnit)
  /\ files = {}
  /\ sw = Call("new", NoneOpt, OkUnit)
  /\ inq = <<>>
  /\ evs = <<>>
  /\ partial = FALSE
  /\ first = NoneOpt
  /\ nread = 0
  /\ nsw = 0
  /\ block = <<>>
  /\ fed = 0
  /\ out = <<>>
  /\ werr = FALSE
  /\ \/ pc = "start" /\ ai \in AuthInfos /\ disk \in Disks
     \/ /\ pc = "util_start"
        /\ ai = [accpass |-> NoneOpt, itkn |-> NoneOpt, otkn |-> NoneOpt]
        /\ disk = [p \in Paths |-> NoneOpt]
  /\ sent = <<>>
  /\ rcvd = <<>>
  /\ xr = NoCall
  /\ res = NoneOpt
  /\ NoMsg

\* conn.next() has yielded item
Receive(item) == rcvd' = IF item = NoneOpt THEN rcvd ELSE Append(rcvd, item[1])

\* the call returns r: authenticate of auth.rs ends at "done", the
\* authenticate of clntif-util.rs at "util_done"
Return(r, at) ==
  /\ res' = Some(r)
  /\ pc' = at

\* authenticate up to the send of token: the token is taken from the
\* AuthInfo or read from its file, and the Auth frame is sent
AuthToken(read_ok, s) ==
  /\ pc = "start"
  /\ do_tknauth
  /\ LET tkn == ai.itkn[1]
         rd == IF tkn.kind = "Buf"
                 THEN [ret |-> OkUnit, s |-> tkn.s]
                 ELSE IF read_ok /\ disk[tkn.fname] # NoneOpt
                        THEN truncate(disk[tkn.fname][1], TknLen)
                        ELSE [ret |-> ErrIO, s |-> <<>>]
     IN  IF rd.ret # OkUnit
           THEN /\ xr' = [call |-> "token", val |-> rd.ret, rr |-> OkUnit]
                /\ Return(rd.ret, "done")
                /\ UNCHANGED sent
           ELSE IF s = OkUnit
                  THEN /\ sent' = Append(sent, TokenFrame(rd.s))
                       /\ pc' = "token_reply"
                       /\ UNCHANGED <<xr, res>>
                  ELSE /\ xr' = [call |-> "token", val |-> from_blather(s),
                                 rr |-> OkUnit]
                       /\ Return(from_blather(s), "done")
                       /\ UNCHANGED sent
  /\ UNCHANGED <<ai, disk, rcvd>>
  /\ UNCHANGED <<codecvars, msgvars>>

\* the reply to the token frame where an accepted token still goes on to
\* the password
AuthTokenReply_goes_on(item) ==
  /\ pc = "token_reply"
  /\ Receive(item)
  /\ LET r == expect_okfail(item)
         t == IF r.kind = "Ok" THEN OkUnit ELSE r
     IN  /\ xr' = [call |-> "token", val |-> t, rr |-> r]
         /\ IF t = OkUnit \/ t.err = "ServerError"
              THEN pc' = "password" /\ UNCHANGED res
              ELSE Return(t, "done")
  /\ UNCHANGED <<ai, disk, sent>>
  /\ UNCHANGED <<codecvars, msgvars>>

\* the reply to the token frame where every error of token is swallowed
AuthTokenReply_swallows(item) ==
  /\ pc = "token_reply"
  /\ Receive(item)
  /\ LET r == expect_okfail(item)
         t == IF r.kind = "Ok" THEN OkUnit ELSE r
     IN  /\ xr' = [call |-> "token", val |-> t, rr |-> r]
         /\ IF t = OkUnit
              THEN Return(OkVal(NoneOpt), "done")
              ELSE pc' = "password" /\ UNCHANGED res
  /\ UNCHANGED <<ai, disk, sent>>
  /\ UNCHANGED <<codecvars, msgvars>>

\* the reply to the token frame arrives: token returns, and authenticate
\* returns or falls through to the password
AuthTokenReply(item) ==
  /\ pc = "token_reply"
  /\ Receive(item)
  /\ LET r == expect_okfail(item)
         t == IF r.kind = "Ok" THEN OkUnit ELSE r
     IN  /\ xr' = [call |-> "token", val |-> t, rr |-> r]
         /\ IF t = OkUnit
              THEN Return(OkVal(NoneOpt), "done")
              ELSE IF t.err = "ServerError"
                     THEN pc' = "password" /\ UNCHANGED res
                     ELSE Return(t, "done")
  /\ UNCHANGED <<ai, disk, sent>>
  /\ UNCHANGED <<codecvars, msgvars>>

\* authenticate after the token part, up to the send of accpass
AuthPassword(s) ==
  /\ pc = "password" \/ (pc = "start" /\ ~do_tknauth)
  /\ IF ai.accpass = NoneOpt
       THEN /\ Return(ErrInvalidCredentials, "done")
            /\ UNCHANGED <<sent, xr>>
       ELSE IF s = OkUnit
              THEN /\ sent' = Append(sent,
                                     AccPassFrame(ai.accpass[1][1],
                                                  ai.accpass[1][2],
                                                  ai.otkn # NoneOpt))
                   /\ pc' = "pass_reply"
                   /\ UNCHANGED <<xr, res>>
              ELSE /\ xr' = [call |-> "accpass", val |-> from_blather(s),
                             rr |-> OkUnit]
                   /\ Return(from_blather(s), "done")
                   /\ UNCHANGED sent
  /\ UNCHANGED <<ai, disk, rcvd>>
  /\ UNCHANGED <<codecvars, msgvars>>

\* the token is written to the output file with File::create and f.write,
\* whose returned count is not looked at
persist(a, fname, tkn, create_ok, w) ==
  IF ~create_ok
    THEN [disk |-> disk, ret |-> ErrIO]
    ELSE IF w = ErrIO
           THEN [disk |-> [disk EXCEPT ![fname] = Some(<<>>)], ret |-> ErrIO]
           ELSE [disk |-> [disk EXCEPT ![fname] = Some(SubSeq(tkn, 1, w.val))],
                 ret |-> a]

\* the reply to the account/passphrase frame arrives: accpass returns, the
\* token is written to the output file and authenticate returns
AuthPasswordReply(item, create_ok, w) ==
  /\ pc = "pass_reply"
  /\ Receive(item)
  /\ LET r == expect_okfail(item)
         tkn == IF r.kind = "Ok" /\ ai.otkn # NoneOpt
                  THEN get_str(r.val, KeyTkn) ELSE NoneOpt
         a == IF r.kind = "Ok" THEN OkVal(tkn) ELSE r
     IN  /\ xr' = [call |-> "accpass", val |-> a, rr |-> r]
         /\ IF tkn # NoneOpt /\ ai.otkn # NoneOpt
              THEN /\ w \in WriteOutcomes(tkn[1])
                   /\ LET p == persist(a, ai.otkn[1], tkn[1], create_ok, w)
                      IN  disk' = p.disk /\ Return(p.ret, "done")
              ELSE /\ create_ok
                   /\ w = ErrIO
                   /\ UNCHANGED disk
                   /\ Return(a, "done")
  /\ UNCHANGED <<ai, sent>>
  /\ UNCHANGED <<codecvars, msgvars>>

\* authenticate of clntif-util.rs up to its send
UtilAuthenticate(auth, s) ==
  /\ pc = "util_start"
  /\ LET tg == IF auth.kind = "AccPass"
                 THEN AccPassFrame(auth.acc, auth.pass, FALSE)
                 ELSE TokenFrame(auth.tkn)
     IN  IF s = OkUnit
           THEN /\ sent' = Append(sent, tg)
                /\ pc' = "util_reply"
                /\ UNCHANGED res
           ELSE /\ Return(s, "util_done")
                /\ UNCHANGED sent
  /\ UNCHANGED <<ai, disk, rcvd, xr>>
  /\ UNCHANGED <<codecvars, msgvars>>

\* the reply arrives at expect_okfail of clntif-util.rs
UtilReply(item) ==
  /\ pc = "util_reply"
  /\ Receive(item)
  /\ xr' = [call |-> "clntif::expect_okfail",
            val |-> clntif_expect_okfail(item),
            rr |-> clntif_expect_okfail(item)]
  /\ Return(clntif_expect_okfail(item), "util_done")
  /\ UNCHANGED <<ai, disk, sent>>
  /\ UNCHANGED <<codecvars, msgvars>>

NextAuth ==
  \/ \E read_ok \in BOOLEAN, s \in SendOutcomes : AuthToken(read_ok, s)
  \/ \E item \in Items : AuthTokenReply(item)
  \/ \E s \in SendOutcomes : AuthPassword(s)
  \/ \E item \in Items, create_ok \in BOOLEAN,
        w \in WriteOutcomes(IssuedToken) :
       AuthPasswordReply(item, create_ok, w)
  \/ \E auth \in Auths, s \in ClntifSendOutcomes : UtilAuthenticate(auth, s)
  \/ \E item \in ClntifItems : UtilReply(item)

SpecAuth == InitAuth /\ [][NextAuth]_vars

(***************************************************************************)
(* The transfer driver: one call of send on an open connection, or of      *)
(* connsend; the peer's replies, the outcome of every write and of every   *)
(* file operation are inputs.                                              *)
(***************************************************************************)
\* the byte lengths of the contents: none, one, the largest u32, and the
\* first two that a u32 cannot hold
Sizes == {Zero, One, U32Max, Sz(1, 0, 0), Sz(1, 0, 1)}

\* a length that a vector can have on the target
MemSizes(bits) == {n \in Sizes : bits = 64 \/ n.hi = 0}

Contents(bits) ==
  {InputParams(One), InputFile(Zero, FALSE)}
    \cup {InputFile(n, TRUE) : n \in Sizes}
    \cup {InputVecBuf(n) : n \in MemSizes(bits)}
    \cup {InputBytes(n) : n \in {Zero, One}}

Sections(bits) == {NoneOpt} \cup {Some(c) : c \in Contents(bits)}

Cmds == {0, 7}
Channels == {0, 1}

MsgInfos(bits) ==
  {[cmd |-> c, meta |-> m, payload |-> p] :
     c \in Cmds, m \in Sections(bits), p \in Sections(bits)}

\* what conn.next() can yield while send waits for a reply
SendItems ==
  {NoneOpt, Some(EvParams(NewParams)), Some(BlatherError("IO"))}
    \cup {Some(EvTelegram([topic |-> t, params |-> p])) :
            t \in {NoneOpt, Some(TopicOk), Some(TopicFail)},
            p \in {NewParams, add_param(NewParams, KeyXferId, XferIdVal)}}

InitTransfer ==
  /\ codec = new_with_max_length(UsizeMax)
  /\ buf = <<>>
  /\ ret = Call("new", NoneOpt, OkUnit)
  /\ files = {}
  /\ sw = Call("new", NoneOpt, OkUnit)
  /\ inq = <<>>
  /\ evs = <<>>
  /\ partial = FALSE
  /\ first = NoneOpt
  /\ nread = 0
  /\ nsw = 0
  /\ block = <<>>
  /\ fed = 0
  /\ out = <<>>
  /\ werr = FALSE
  /\ sent = <<>>
  /\ rcvd = <<>>
  /\ xr = NoCall
  /\ res = NoneOpt
  /\ xferid = NoneOpt

InitSend ==
  /\ InitTransfer
  /\ ai = [accpass |-> NoneOpt, itkn |-> NoneOpt, otkn |-> NoneOpt]
  /\ disk = [p \in Paths |-> NoneOpt]
  /\ pc = "msg_start"
  /\ usz \in {32, 64}
  /\ mi \in MsgInfos(usz)
  /\ \E c \in Channels : xfer = [call |-> "send", ch |-> c, authinfo |-> NoneOpt]

\* send up to the write of the Msg telegram
MsgSend(s) ==
  /\ pc = "msg_start"
  /\ LET metalen == get_meta_size(mi, usz)
         payloadlen == get_payload_size(mi, usz)
     IN  IF IsErr(metalen)
           THEN Return(metalen, "send_done") /\ UNCHANGED sent
           ELSE IF IsErr(payloadlen)
                  THEN Return(payloadlen, "send_done") /\ UNCHANGED sent
                  ELSE IF s = OkUnit
                         THEN /\ sent' = Append(sent,
                                                MsgFrame(xfer.ch, mi.cmd,
                                                         metalen.val,
                                                         payloadlen.val))
                              /\ pc' = "msg_reply"
                              /\ UNCHANGED res
                         ELSE /\ Return(from_blather(s), "send_done")
                              /\ UNCHANGED sent
  /\ UNCHANGED <<ai, disk, rcvd, xr>>
  /\ UNCHANGED <<codecvars, msgvars>>

\* where send goes on after the reply to the Msg telegram ("msg") or after
\* the acknowledgement of a section
NextSection(after) ==
  IF after = "msg" /\ mi.meta # NoneOpt
    THEN "meta_send"
    ELSE IF after \in {"msg", "meta"} /\ mi.payload # NoneOpt
           THEN "payload_send"
           ELSE "send_done"

\* send goes on to the next section, or returns the transfer identifier
Proceed(after, id) ==
  IF NextSection(after) = "send_done"
    THEN Return(OkVal(id), "send_done")
    ELSE pc' = NextSection(after) /\ UNCHANGED res

\* the reply to the Msg telegram where a missing XferId is taken for an
\* empty transfer identifier
MsgReply_no_id_check(item) ==
  /\ pc = "msg_reply"
  /\ Receive(item)
  /\ LET params == expect_okfail(item)
         id == IF get_str(params.val, KeyXferId) = NoneOpt
                 THEN Some(<<>>) ELSE get_str(params.val, KeyXferId)
     IN  /\ xr' = [call |-> "sendrecv", val |-> params, rr |-> params]
         /\ IF params.kind # "Ok"
              THEN Return(params, "send_done") /\ UNCHANGED xferid
              ELSE xferid' = id /\ Proceed("msg", id[1])
  /\ UNCHANGED <<ai, disk, sent>>
  /\ UNCHANGED <<codecvars, mi, xfer, usz>>

\* the reply to the Msg telegram arrives
MsgReply(item) ==
  /\ pc = "msg_reply"
  /\ Receive(item)
  /\ LET params == expect_okfail(item)
     IN  /\ xr' = [call |-> "sendrecv", val |-> params, rr |-> params]
         /\ IF params.kind # "Ok"
              THEN Return(params, "send_done") /\ UNCHANGED xferid
              ELSE IF get_str(params.val, KeyXferId) = NoneOpt
                     THEN /\ Return(ErrMissingData, "send_done")
                          /\ UNCHANGED xferid
                     ELSE /\ xferid' = get_str(params.val, KeyXferId)
                          /\ Proceed("msg", get_str(params.val, KeyXferId)[1])
  /\ UNCHANGED <<ai, disk, sent>>
  /\ UNCHANGED <<codecvars, mi, xfer, usz>>

\* send_content where the payload follows the metadata without waiting
\* for the acknowledgement of the metadata
SendContent_no_wait(open_ok, actual, s, all) ==
  /\ pc \in {"meta_send", "payload_send"}
  /\ LET sec == IF pc = "meta_send" THEN "meta" ELSE "payload"
         data == IF pc = "meta_send" THEN mi.meta[1] ELSE mi.payload[1]
         n == IF data.kind = "File" THEN actual ELSE data.len
         e == IF data.kind = "File" THEN ErrIO ELSE from_blather(s)
     IN  /\ data.kind # "File" => (open_ok /\ actual = data.len)
         /\ IF ~open_ok
              THEN /\ s = OkUnit
                   /\ all
                   /\ actual = Zero
                   /\ Return(ErrIO, "send_done")
                   /\ UNCHANGED sent
              ELSE IF s = OkUnit
                     THEN /\ all
                          /\ sent' = Append(sent, Content(sec, n))
                          /\ pc' = IF sec = "payload"
                                     THEN "payload_reply"
                                     ELSE IF mi.payload # NoneOpt
                                            THEN "payload_send"
                                            ELSE "meta_reply"
                          /\ UNCHANGED res
                     ELSE /\ sent' = Append(sent,
                                            Content(sec, IF all THEN n
                                                                ELSE Zero))
                          /\ Return(e, "send_done")
  /\ UNCHANGED <<ai, disk, rcvd, xr>>
  /\ UNCHANGED <<codecvars, msgvars>>

\* send_content for the section that is due: a file is opened and copied
\* to the connection with the length it has by then, any other content is
\* sent through the codec; a failing write has written nothing or
\* everything (all == TRUE)
SendContent(open_ok, actual, s, all) ==
  /\ pc \in {"meta_send", "payload_send"}
  /\ LET sec == IF pc = "meta_send" THEN "meta" ELSE "payload"
         data == IF pc = "meta_send" THEN mi.meta[1] ELSE mi.payload[1]
         n == IF data.kind = "File" THEN actual ELSE data.len
         e == IF data.kind = "File" THEN ErrIO ELSE from_blather(s)
     IN  /\ data.kind # "File" => (open_ok /\ actual = data.len)
         /\ IF ~open_ok
              THEN /\ s = OkUnit
                   /\ all
                   /\ actual = Zero
                   /\ Return(ErrIO, "send_done")
                   /\ UNCHANGED sent
              ELSE IF s = OkUnit
                     THEN /\ all
                          /\ sent' = Append(sent, Content(sec, n))
                          /\ pc' = IF sec = "meta" THEN "meta_reply"
                                                   ELSE "payload_reply"
                          /\ UNCHANGED res
                     ELSE /\ sent' = Append(sent,
                                            Content(sec, IF all THEN n
                                                                ELSE Zero))
                          /\ Return(e, "send_done")
  /\ UNCHANGED <<ai, disk, rcvd, xr>>
  /\ UNCHANGED <<codecvars, msgvars>>

\* the acknowledgement of a section where a Fail reply does not stop send
ContentReply_ignores_fail(item) ==
  /\ pc \in {"meta_reply", "payload_reply"}
  /\ Receive(item)
  /\ LET r == expect_okfail(item)
     IN  /\ xr' = [call |-> "expect_okfail", val |-> r, rr |-> r]
         /\ IF r.kind # "Ok" /\ r.err # "ServerError"
              THEN Return(r, "send_done")
              ELSE Proceed(IF pc = "meta_reply" THEN "meta" ELSE "payload",
                           xferid[1])
  /\ UNCHANGED <<ai, disk, sent>>
  /\ UNCHANGED <<codecvars, msgvars>>

\* the acknowledgement of a section arrives
ContentReply(item) ==
  /\ pc \in {"meta_reply", "payload_reply"}
  /\ Receive(item)
  /\ LET r == expect_okfail(item)
     IN  /\ xr' = [call |-> "expect_okfail", val |-> r, rr |-> r]
         /\ IF r.kind # "Ok"
              THEN Return(r, "send_done")
              ELSE Proceed(IF pc = "meta_reply" THEN "meta" ELSE "payload",
                           xferid[1])
  /\ UNCHANGED <<ai, disk, sent>>
  /\ UNCHANGED <<codecvars, msgvars>>

NextSend ==
  \/ \E s \in SendOutcomes : MsgSend(s)
  \/ \E item \in SendItems : MsgReply(item)
  \/ \E open_ok \in BOOLEAN, actual \in Sizes, s \in SendOutcomes,
        all \in BOOLEAN : SendContent(open_ok, actual, s, all)
  \/ \E item \in SendItems : ContentReply(item)

SpecSend == InitSend /\ [][NextSend]_vars

(***************************************************************************)
(* The connsend driver: connect, authenticate when an AuthInfo is given,   *)
(* then send.                                                              *)
(***************************************************************************)
ConnMsgInfos ==
  {[cmd |-> 0, meta |-> m, payload |-> p] :
     m \in {NoneOpt, Some(InputVecBuf(One))},
     p \in {NoneOpt, Some(InputFile(One, TRUE))}}

InitConn ==
  /\ InitTransfer
  /\ disk \in Disks
  /\ pc = "conn_start"
  /\ usz = 64
  /\ mi \in ConnMsgInfos
  /\ \E a \in {NoneOpt} \cup {Some(x) : x \in AuthInfos} :
       /\ xfer = [call |-> "connsend", ch |-> 1, authinfo |-> a]
       /\ ai = IF a = NoneOpt
                 THEN [accpass |-> NoneOpt, itkn |-> NoneOpt, otkn |-> NoneOpt]
                 ELSE a[1]

\* connsend where send follows whatever authenticate has returned
AfterAuth_ignores_error ==
  /\ pc = "done"
  /\ xfer.call = "connsend"
  /\ pc' = "msg_start"
  /\ res' = NoneOpt
  /\ UNCHANGED <<ai, disk, sent, rcvd, xr>>
  /\ UNCHANGED <<codecvars, msgvars>>

\* TcpStream::connect / UnixStream::connect, and the Framed on the stream
Connect(ok) ==
  /\ pc = "conn_start"
  /\ IF ~ok
       THEN Return(ErrIO, "conn_done")
       ELSE /\ pc' = IF xfer.authinfo # NoneOpt THEN "start" ELSE "msg_start"
            /\ UNCHANGED res
  /\ UNCHANGED <<ai, disk, sent, rcvd, xr>>
  /\ UNCHANGED <<codecvars, msgvars>>

\* authenticate has returned to connsend: an error is returned, otherwise
\* send is called
AfterAuth ==
  /\ pc = "done"
  /\ xfer.call = "connsend"
  /\ IF res[1].kind = "Ok"
       THEN pc' = "msg_start" /\ res' = NoneOpt
       ELSE pc' = "conn_done" /\ UNCHANGED res
  /\ UNCHANGED <<ai, disk, sent, rcvd, xr>>
  /\ UNCHANGED <<codecvars, msgvars>>

NextConn ==
  \/ \E ok \in BOOLEAN : Connect(ok)
  \/ \E read_ok \in BOOLEAN, s \in SendOutcomes : AuthToken(read_ok, s)
  \/ \E item \in Items : AuthTokenReply(item)
  \/ \E s \in SendOutcomes : AuthPassword(s)
  \/ \E item \in Items, create_ok \in BOOLEAN,
        w \in WriteOutcomes(IssuedToken) :
       AuthPasswordReply(item, create_ok, w)
  \/ AfterAuth
  \/ \E s \in SendOutcomes : MsgSend(s)
  \/ \E item \in SendItems : MsgReply(item)
  \/ \E open_ok \in BOOLEAN, actual \in {Zero, One}, s \in SendOutcomes,
        all \in BOOLEAN : SendContent(open_ok, actual, s, all)
  \/ \E item \in SendItems : ContentReply(item)

SpecConn == InitConn /\ [][NextConn]_vars

(***************************************************************************)
(* What a text block is, read off the wire format and not off the decoder. *)
(***************************************************************************)
HasLF(s) == \E i \in 1..Len(s) : s[i] = LF
FirstLF(s) == CHOOSE i \in 1..Len(s) : s[i] = LF /\ \A j \in 1..(i - 1) : s[j] # LF

\* the lines of a byte string, each without the line feed that ends it
RECURSIVE RawLines(_)
RawLines(s) ==
  IF ~HasLF(s)
    THEN <<>>
    ELSE <<SubSeq(s, 1, FirstLF(s) - 1)>>
           \o RawLines(SubSeq(s, FirstLF(s) + 1, Len(s)))

\* a line without its line ending, LF or CR LF
StripCR(l) ==
  IF l # <<>> /\ l[Len(l)] = CR THEN SubSeq(l, 1, Len(l) - 1) ELSE l

TextLines(s) == [i \in 1..Len(RawLines(s)) |-> StripCR(RawLines(s)[i])]

HasSpace(l) == \E i \in 1..Len(l) : l[i] = SP
FirstSpace(l) == CHOOSE i \in 1..Len(l) : l[i] = SP /\ \A j \in 1..(i - 1) : l[j] # SP
KeyOf(l) == SubSeq(l, 1, FirstSpace(l) - 1)
ValueOf(l) == SubSeq(l, FirstSpace(l) + 1, Len(l))

\* the key -> value map that the lines from..to of ls denote: every line
\* with a space gives the pair (text before its first space, text after
\* it); the keys of a map are unique, a later line of the same key
\* replaces the earlier pair
PairsOf(ls, from, to) ==
  {<<KeyOf(ls[i]), ValueOf(ls[i])>> :
     i \in {j \in from..to :
              /\ HasSpace(ls[j])
              /\ \A k \in (j + 1)..to :
                   HasSpace(ls[k]) => KeyOf(ls[k]) # KeyOf(ls[j])}}

\* more than L bytes with no line feed among the first L + 1
OverLong(b, L) == Len(b) > L /\ \A i \in 1..(L + 1) : b[i] # LF

\* a block that the wire format allows as a Telegram under line limit L:
\* a topic line without whitespace, text lines, none longer than L
ValidTelegramBlock(b, L) ==
  /\ Len(RawLines(b)) >= 2
  /\ \A i \in 1..Len(RawLines(b)) : Len(RawLines(b)[i]) <= L
  /\ \A i \in 1..Len(RawLines(b)) : \A j \in 1..Len(RawLines(b)[i]) :
       RawLines(b)[i][j] < 128
  /\ \A j \in 1..Len(TextLines(b)[1]) : TextLines(b)[1][j] \notin {SP, CR}

\* the codec as it is when the first byte of the block arrives
StartCodec ==
  LET c0 == new_with_max_length(codec.max_line_length)
  IN  CASE sw.op = "expect_params" -> expect_params(c0).c
        [] sw.op = "expect_kvlines" -> expect_kvlines(c0).c
        [] OTHER -> c0

\* what a single decode call on the whole block returns
Whole == decode(StartCodec, block, TRUE).ret

\* C1 as stated: for every complete text block and every fragmentation,
\* every decode call before the last fragment returns need-more-data and
\* the call after the last fragment returns what a single decode call on
\* the whole block returns, event or error.
C1_EveryCallBeforeLastNeedsMore ==
  ret.op = "decode"
    => ret.val = IF fed < Len(block) THEN NeedMore ELSE Whole

\* C1 amended: for every complete text block and every fragmentation, the
\* first decode call that returns anything but need-more-data returns what
\* a single decode call on the whole block returns, and there is such a
\* call once the last fragment is in; when that result is an event, it is
\* the call after the last fragment and every earlier call returns
\* need-more-data.
C1_FirstReturnAgrees ==
  /\ first # NoneOpt => first[1] = Whole
  /\ fed = Len(block) => first # NoneOpt
  /\ IsEvent(Whole) => C1_EveryCallBeforeLastNeedsMore

\* a block of two lines and its empty line has arrived in fragments, one
\* of which ended inside the block's text, and the last call returned the
\* event of the whole block
C1_Witness ==
  /\ fed = Len(block)
  /\ partial
  /\ IsEvent(ret.val)
  /\ ret.val = Whole
  /\ Len(RawLines(block)) >= 3

\* C2: with a finite max_line_length L, a decode call in a text state
\* returns the BadFormat length error when the line at the head of the
\* buffer holds more than L bytes with no line feed among its first L + 1,
\* whatever the earlier fragments were; it never returns need-more-data
\* while leaving such a line in the buffer; and it returns the length
\* error only for such a line (a line of at most L bytes before its line
\* feed never produces it).
C2_LineLengthBound ==
  [][fed' > fed =>
       LET b == buf \o SubSeq(block, fed + 1, fed')
           L == codec.max_line_length
       IN  /\ OverLong(b, L) => ret'.val = ErrLineLength
           /\ OverLong(buf', L) => ret'.val # NeedMore
           /\ ret'.val = ErrLineLength => OverLong(buf', L)]_vars

\* a line longer than the finite limit arrived in two fragments: the first
\* call asked for more data, the second one failed
C2_Witness ==
  /\ codec.max_line_length = MaxLimit
  /\ partial
  /\ ret.val = ErrLineLength
  /\ codec.next_line_index > 0

\* C9: in state Telegram a block 'topic LF (key SP value LF)* LF' decodes
\* to one Frame, with no error and no earlier event: its topic is the first
\* line, its parameters are the pairs got by splitting every following
\* line at its first space (the value keeps further spaces), a following
\* line without a space adds nothing, and with no parameter line the map
\* is empty.
C9_TelegramDecoding ==
  (/\ sw.op = "new"
   /\ fed = Len(block)
   /\ ValidTelegramBlock(block, codec.max_line_length))
    => /\ ret.val =
            EvTelegram([topic |-> Some(TextLines(block)[1]),
                        params |-> PairsOf(TextLines(block), 2,
                                           Len(TextLines(block)) - 1)])
       /\ evs = <<ret.val>>
       /\ first = Some(ret.val)

\* a fragmented Telegram block with a parameter line was decoded to a Frame
C9_Witness ==
  /\ sw.op = "new"
  /\ fed = Len(block)
  /\ partial
  /\ ValidTelegramBlock(block, codec.max_line_length)
  /\ ret.val.kind = "Telegram"
  /\ \E p \in ret.val.tg.params : p[1] # <<>>

\* C10 as stated: a Telegram block whose topic line contains a space never
\* yields a Frame, neither from the decode call that fails nor from a later
\* decode call on the rest of the block.
C10_NoFrameAfterBadTopic ==
  (sw.op = "new" /\ HasSpace(TextLines(block)[1]))
    => \A i \in 1..Len(evs) : evs[i].kind # "Telegram"

(***************************************************************************)
(* Claims about the interface machine.                                     *)
(***************************************************************************)
SizedOps == {"expect_chunks", "expect_buf", "expect_file", "expect_writer",
             "skip"}

\* C3 as stated: in every binary state the remaining-byte counter never
\* increases across a decode call, no decode call leaves a binary state
\* while the counter is non-zero, and every decode call that brings the
\* counter to zero leaves the codec in state Telegram.
C3_CounterEndsInTelegram ==
  [][(ret'.op = "decode" /\ codec.state \in BinaryStates)
       => /\ codec'.bin_remain <= codec.bin_remain
          /\ codec'.bin_remain # 0 => codec'.state = codec.state
          /\ (codec.bin_remain # 0 /\ codec'.bin_remain = 0)
               => codec'.state = "Telegram"]_vars

\* C4 as stated, its first half: after any sequence of mode-switch calls
\* (failing ones included) and decode calls, the output sink is present
\* exactly when the codec state is File or Writer.
C4_SinkIffFileOrWriter ==
  codec.writer # NoneOpt <=> codec.state \in {"File", "Writer"}

\* C5 as stated: every mode-switch call that takes a size rejects the size
\* zero as invalid, so that no accepted mode switch leaves the codec in a
\* binary state with a counter of zero.
C5_ZeroSizeRejected ==
  /\ (ret.op \in SizedOps /\ ret.arg[1] = 0) => ret.val = ErrInvalidSize
  /\ (ret.op \in SizedOps /\ ret.val = OkUnit)
       => ~(codec.state \in BinaryStates /\ codec.bin_remain = 0)

\* C6: expect_buf, expect_file, expect_writer and skip, called with size 0,
\* return the InvalidSize error, read no byte, create no file and leave
\* the codec (state, counter, sink, path, accumulation buffer) as it was.
C6_ZeroSizeNoEffect ==
  [][(ret'.op \in {"expect_buf", "expect_file", "expect_writer", "skip"}
        /\ ret'.arg[1] = 0)
       => /\ ret'.val = ErrInvalidSize
          /\ codec' = codec
          /\ buf' = buf
          /\ nread' = nread
          /\ files' = files]_vars

\* expect_file(path, 0) was rejected while a Buf transfer was under way,
\* with bytes already accumulated
C6_Witness ==
  /\ ret.op = "expect_file"
  /\ ret.arg[1] = 0
  /\ ret.val = ErrInvalidSize
  /\ codec.state = "Buf"
  /\ codec.buf # <<>>
  /\ files = {}

\* the Chunk events among the values decode returned
ChunkEvents(h) == SelectSeq(h, LAMBDA e : e.kind = "Chunk")

\* the first k chunks laid end to end
ChunkData(ch, k) == Flatten([i \in 1..k |-> ch[i].data])

C7_Chunks ==
  sw.op = "expect_chunks" =>
    LET n == sw.arg[1]
        ch == ChunkEvents(evs)
    IN  /\ ChunkData(ch, Len(ch)) = SubSeq(inq, 1, Len(ChunkData(ch, Len(ch))))
        /\ \A i \in 1..Len(ch) : ch[i].remain = n - Len(ChunkData(ch, i))
        /\ \A i \in 1..(Len(ch) - 1) : ch[i].remain > 0
        /\ \A i \in 1..Len(evs) :
             evs[i].kind = "Chunk"
               => \A j \in 1..(i - 1) : evs[j].kind = "Chunk"
        /\ IF codec.state = "Chunks"
             THEN /\ Len(ChunkData(ch, Len(ch))) + codec.bin_remain = n
                  /\ ch # <<>> => ch[Len(ch)].remain > 0
             ELSE /\ codec.state = "Telegram"
                  /\ ch # <<>>
                  /\ ch[Len(ch)].remain = 0
                  /\ Len(ChunkData(ch, Len(ch))) = n

C7_ChunkStep ==
  (ret'.op = "decode" /\ codec.state = "Chunks")
    => IF buf = <<>>
         THEN ret'.val = NeedMore /\ codec' = codec /\ buf' = buf
         ELSE LET m == Min(codec.bin_remain, Len(buf))
              IN  /\ ret'.val = EvChunk(SubSeq(buf, 1, m),
                                        codec.bin_remain - m)
                  /\ buf' = SubSeq(buf, m + 1, Len(buf))

\* C7: after expect_chunks(n), whatever the fragmentation, a decode call on
\* a non-empty buffer returns a Chunk of min(remaining, available) bytes
\* with the count remaining after it, and a decode call on an empty buffer
\* returns need-more-data and changes nothing; the chunks laid end to end
\* are the first bytes of the stream in order, n of them in all; the chunk
\* with remaining count 0 is the last one, and after it the state is
\* Telegram.
C7_ChunksDelivery == []C7_Chunks /\ [][C7_ChunkStep]_vars

\* expect_chunks(MaxSize) was served by two chunks or more, the last one
\* with remaining count 0, and a byte that follows is still in the buffer
C7_Witness ==
  /\ sw = Call("expect_chunks", Some(MaxSize), OkUnit)
  /\ Len(ChunkEvents(evs)) >= 2
  /\ ret.val.kind = "Chunk"
  /\ ret.val.remain = 0
  /\ codec.state = "Telegram"
  /\ buf # <<>>

\* C8: after expect_buf(n), n > 0, decode emits no event until n bytes
\* have arrived, whatever the fragmentation; then it emits one Buf event,
\* which holds the next n bytes of the stream in order; the bytes after
\* the n-th stay in the input buffer, the state is Telegram again and the
\* accumulation buffer is empty.
C8_BufDelivery ==
  sw.op = "expect_buf" =>
    LET n == sw.arg[1]
    IN  /\ n > 0
        /\ IF codec.state = "Buf"
             THEN /\ evs = <<>>
                  /\ codec.buf \o buf = inq
                  /\ Len(codec.buf) + codec.bin_remain = n
                  /\ codec.bin_remain > 0
                  /\ ret.op = "decode" => Len(inq) < n
             ELSE /\ codec.state = "Telegram"
                  /\ codec.buf = <<>>
                  /\ Len(inq) >= n
                  /\ evs # <<>>
                  /\ Head(evs) = EvBuf(SubSeq(inq, 1, n))
                  /\ Len(SelectSeq(evs, LAMBDA e : e.kind = "Buf")) = 1
        /\ ret.val.kind = "Buf" => buf = SubSeq(inq, n + 1, Len(inq))

\* expect_buf(MaxSize) was called, the bytes came in two fragments or
\* more, and the Buf event left the byte that follows in the input buffer
C8_Witness ==
  /\ sw = Call("expect_buf", Some(MaxSize), OkUnit)
  /\ partial
  /\ ret.val.kind = "Buf"
  /\ Len(ret.val.data) = MaxSize
  /\ buf # <<>>

\* C11: every Frame event that decode emits in state Telegram carries a
\* topic, for every input byte sequence.
C11_FrameHasTopic ==
  (ret.op = "decode" /\ ret.val.kind = "Telegram")
    => ret.val.tg.topic # NoneOpt

(***************************************************************************)
(* Claims about runs of text blocks.                                       *)
(***************************************************************************)
\* the offset of the line feed of the first empty line of s (a line that
\* holds a lone carriage return is empty)
BlockEnd(s) ==
  CHOOSE i \in 1..Len(s) :
    LET empty(j) ==
          /\ s[j] = LF
          /\ \/ j = 1
             \/ s[j - 1] = LF
             \/ s[j - 1] = CR /\ (j = 2 \/ s[j - 2] = LF)
    IN  empty(i) /\ \A j \in 1..(i - 1) : ~empty(j)

\* the complete text blocks of a run, each with its empty line
RECURSIVE SplitBlocks(_)
SplitBlocks(s) ==
  IF s = <<>>
    THEN <<>>
    ELSE <<SubSeq(s, 1, BlockEnd(s))>>
           \o SplitBlocks(SubSeq(s, BlockEnd(s) + 1, Len(s)))

\* block i of the run
Blk(i) == SplitBlocks(block)[i]

\* what decode returns for block i alone on a fresh codec: the first block
\* in the mode that the caller has set, the later ones in state Telegram
Alone(i) ==
  decode(IF i = 1 THEN StartCodec
                  ELSE new_with_max_length(codec.max_line_length),
         Blk(i), TRUE).ret

\* every block of the run decodes alone to an event
AllGood == \A i \in 1..Len(SplitBlocks(block)) : IsEvent(Alone(i))

\* C12: decoding the concatenation of k complete text blocks yields exactly
\* k events in the order of the blocks, the i-th event is the event that
\* block i alone gives on a fresh codec, and the accumulator is empty
\* right after each hand-over.
C12_BlocksInOrder ==
  (sw.op = "new" /\ AllGood)
    => /\ Len(evs) <= Len(SplitBlocks(block))
       /\ \A i \in 1..Len(evs) : evs[i] = Alone(i)
       /\ ~IsErr(ret.val)
       /\ IsEvent(ret.val) => codec.tg = NewTelegram
       /\ (ret.op = "decode" /\ ret.val = NeedMore)
            => (Len(evs) = Len(SplitBlocks(block)) /\ buf = <<>>)

\* a run of two Telegram blocks, the first with a topic and a parameter,
\* the second with a topic only, has been decoded to its two events
C12_Witness ==
  /\ sw.op = "new"
  /\ AllGood
  /\ Len(SplitBlocks(block)) = 2
  /\ ret.op = "decode"
  /\ ret.val = NeedMore
  /\ Len(evs) = 2
  /\ evs[1].tg.topic # NoneOpt
  /\ evs[1].tg.params # {}
  /\ evs[2].tg.topic # NoneOpt
  /\ evs[2].tg.params = {}

\* the ordered key/value pairs that the lines of ls before its last denote:
\* one pair for every line with a space, duplicates kept
KVOf(ls) ==
  LET sp == SelectSeq(SubSeq(ls, 1, Len(ls) - 1), HasSpace)
  IN  [i \in 1..Len(sp) |-> <<KeyOf(sp[i]), ValueOf(sp[i])>>]

\* C13: after expect_params (resp. expect_kvlines) every line up to the
\* terminating empty line is decoded by the key/value rule and none as a
\* topic, the empty line yields exactly one Params (resp. KVLines) event
\* and the state is then Telegram, so the blocks that follow are decoded
\* as Telegrams whose first line is the topic; in state Telegram the state
\* stays Telegram after a Frame is emitted.
C13_ParamsThenTelegram ==
  /\ (sw.op = "new" /\ fed > 0) => codec.state = "Telegram"
  /\ (sw.op \in {"expect_params", "expect_kvlines"} /\ AllGood)
       => /\ evs = <<>>
               => codec.state = (IF sw.op = "expect_params" THEN "Params"
                                                            ELSE "KVLines")
          /\ evs # <<>>
               => /\ codec.state = "Telegram"
                  /\ evs[1] =
                       IF sw.op = "expect_params"
                         THEN EvParams(PairsOf(TextLines(Blk(1)), 1,
                                               Len(TextLines(Blk(1))) - 1))
                         ELSE EvKVLines(KVOf(TextLines(Blk(1))))
          /\ \A i \in 2..Len(evs) :
               /\ evs[i].kind = "Telegram"
               /\ evs[i] = Alone(i)
               /\ evs[i].tg.topic =
                    IF Len(TextLines(Blk(i))) > 1
                      THEN Some(TextLines(Blk(i))[1]) ELSE NoneOpt
          /\ (ret.op = "decode" /\ ret.val = NeedMore)
               => Len(evs) = Len(SplitBlocks(block))

\* a Params block with a pair, followed by a Telegram block with a topic,
\* has been decoded to a Params event and a Telegram event
C13_Witness ==
  /\ sw.op = "expect_params"
  /\ AllGood
  /\ ret.op = "decode"
  /\ ret.val = NeedMore
  /\ Len(evs) = 2
  /\ evs[1].kind = "Params"
  /\ evs[1].params # {}
  /\ evs[2].kind = "Telegram"
  /\ evs[2].tg.topic # NoneOpt

(***************************************************************************)
(* Claims about the encoders.                                              *)
(***************************************************************************)
\* the Telegram event of the block has come back from its encoded form:
\* the second event has the topic and the key/value set of the first, or
\* the Params event has the parameters of the Telegram
SameBack ==
  /\ (ret.op = "decode" /\ Len(inq) > Len(block)) => IsEvent(ret.val)
  /\ (sw.op = "new" /\ Len(evs) = 2)
       => /\ evs[2].kind = "Telegram"
          /\ evs[2].tg.topic = evs[1].tg.topic
          /\ evs[2].tg.params = evs[1].tg.params
  /\ (sw.op = "expect_params" /\ ret.op = "decode")
       => ret.val = EvParams(first[1].tg.params)

\* C14 as stated: for every valid text block, decoding it, encoding the
\* Frame and decoding again gives a Frame with the same topic and an equal
\* key/value set; a key/value map encoded as 'key value LF' lines plus a
\* blank line decodes in Params state to the same map.
C14_RoundTripAnyValue == SameBack

\* no value of the map ends with a carriage return
NoTrailingCR(m) == \A p \in m : p[2] = <<>> \/ p[2][Len(p[2])] # CR

\* C14 amended: the same, for the blocks and maps none of whose values
\* ends with a carriage return.
C14_RoundTrip ==
  (first # NoneOpt /\ first[1].kind = "Telegram"
     /\ NoTrailingCR(first[1].tg.params))
    => SameBack

\* a Telegram with a parameter has been encoded and decoded again
C14_Witness ==
  /\ sw.op = "new"
  /\ ret.op = "decode"
  /\ Len(evs) = 2
  /\ evs[1].tg.params # {}
  /\ evs[2] = evs[1]

(***************************************************************************)
(* Claims about authenticate (auth.rs) and the reply helpers.              *)
(***************************************************************************)
\* the frames of the two credential kinds
IsTknFrame(tg) == get_str(tg.params, KeyTkn) # NoneOpt

IsAccPassFrame(tg) ==
  /\ get_str(tg.params, KeyAccName) # NoneOpt
  /\ get_str(tg.params, KeyPass) # NoneOpt

\* the positions of authenticate of auth.rs
AuthPcs == {"start", "token_reply", "password", "pass_reply", "done"}

\* the AuthInfo names a token file that does not exist
TokenFileMissing ==
  /\ ai.itkn # NoneOpt
  /\ ai.itkn[1].kind = "File"
  /\ disk[ai.itkn[1].fname] = NoneOpt

IsTelegramOf(o, topic) ==
  /\ ~IsErr(o)
  /\ o.kind = "Telegram"
  /\ o.tg.topic = Some(topic)

\* C15: when the input token is a file that does not exist, authenticate
\* sends no token frame and the missing file is no error: it goes straight
\* to the password, sending the account/passphrase frame first if it has an
\* accpass, and returning InvalidCredentials with no exchange at all if it
\* has none.
C15_MissingTokenFile ==
  [][(pc \in AuthPcs /\ TokenFileMissing) =>
       /\ \A i \in 1..Len(sent') : ~IsTknFrame(sent'[i])
       /\ pc = "start" =>
            IF ai.accpass = NoneOpt
              THEN /\ pc' = "done"
                   /\ res' = Some(ErrInvalidCredentials)
                   /\ sent' = <<>>
                   /\ rcvd' = <<>>
              ELSE \/ /\ pc' = "pass_reply"
                      /\ Len(sent') = 1
                      /\ IsAccPassFrame(sent'[1])
                      /\ res' = NoneOpt
                   \/ /\ pc' = "done"
                      /\ sent' = <<>>
                      /\ res' = Some(from_blather(BlatherError("IO")))]_vars

C15_Witness ==
  /\ pc = "done"
  /\ TokenFileMissing
  /\ ai.accpass = NoneOpt
  /\ sent = <<>>
  /\ rcvd = <<>>
  /\ res = Some(ErrInvalidCredentials)

\* the step is the arrival of a Telegram of the given topic as the reply
\* that authenticate waits for at position at
ReplyStep(at, topic) ==
  /\ pc = at
  /\ Len(rcvd') = Len(rcvd) + 1
  /\ IsTelegramOf(rcvd'[Len(rcvd')], topic)

\* C16: when the token was sent and the server replies Ok, authenticate
\* returns Ok(None) at once: no AccName/Pass frame is sent and no file is
\* written, whatever accpass and otkn are.
C16_TokenAccepted ==
  [][ReplyStep("token_reply", TopicOk) =>
       /\ pc' = "done"
       /\ res' = Some(OkVal(NoneOpt))
       /\ sent' = sent
       /\ Len(sent) = 1
       /\ IsTknFrame(sent[1])
       /\ ~IsAccPassFrame(sent[1])
       /\ disk' = disk]_vars

C16_Witness ==
  /\ pc = "done"
  /\ ai.accpass # NoneOpt
  /\ ai.otkn # NoneOpt
  /\ Len(sent) = 1
  /\ IsTknFrame(sent[1])
  /\ Len(rcvd) = 1
  /\ IsTelegramOf(rcvd[1], TopicOk)
  /\ get_str(rcvd[1].tg.params, KeyTkn) # NoneOpt
  /\ res = Some(OkVal(NoneOpt))
  /\ disk[ai.otkn[1]] = NoneOpt

\* the token frame was sent first and the server replied Fail to it
TokenRejected ==
  /\ pc \in AuthPcs
  /\ Len(sent) >= 1
  /\ IsTknFrame(sent[1])
  /\ Len(rcvd) >= 1
  /\ IsTelegramOf(rcvd[1], TopicFail)

\* C17: when the server replies Fail to the token, that failure is not what
\* authenticate returns: with an accpass the AccName/Pass frame is sent
\* next and authenticate returns the outcome of that exchange, success when
\* the server replies Ok to it; with no accpass it returns
\* InvalidCredentials.
C17_TokenRejectedFallsBack ==
  TokenRejected =>
    IF ai.accpass = NoneOpt
      THEN /\ pc \in {"password", "done"}
           /\ Len(sent) = 1
           /\ pc = "done" => res = Some(ErrInvalidCredentials)
      ELSE /\ pc \in {"password", "pass_reply", "done"}
           /\ pc = "pass_reply" => Len(sent) = 2
           /\ Len(sent) >= 2 => IsAccPassFrame(sent[2])
           /\ (pc = "done" /\ Len(rcvd) = 2) =>
                /\ IsTelegramOf(rcvd[2], TopicOk) => res[1].kind = "Ok"
                /\ IsTelegramOf(rcvd[2], TopicFail) =>
                     res = Some(ServerError(rcvd[2].tg.params))

\* token() has returned an error that is not a ServerError
TokenFailed ==
  /\ pc \in AuthPcs
  /\ xr.call = "token"
  /\ IsErr(xr.val)
  /\ xr.val.err # "ServerError"

C18_Returned ==
  TokenFailed =>
    /\ pc = "done"
    /\ res = Some(xr.val)
    /\ Len(sent) <= 1
    /\ \A i \in 1..Len(sent) : ~IsAccPassFrame(sent[i])

\* the wait for the token's reply ends without a Telegram of topic Ok or
\* Fail: an error is returned and nothing is sent
C18_Step ==
  (pc = "token_reply" /\ pc' # pc
     /\ ~ReplyStep("token_reply", TopicOk)
     /\ ~ReplyStep("token_reply", TopicFail)) =>
    /\ pc' = "done"
    /\ IsErr(res'[1])
    /\ \/ res'[1] \in {ErrBadState, ErrDisconnected}
       \/ res'[1] = from_blather(rcvd'[Len(rcvd')])
    /\ sent' = sent

\* C18: when token() fails with anything but a ServerError (the token file
\* cannot be read, the send fails, the reply is unexpected or a decoder
\* error, the stream has ended), authenticate returns that error at once
\* and sends no AccName/Pass frame, whatever accpass is.
C18_TokenErrorReturned == []C18_Returned /\ [][C18_Step]_vars

C18_Witness ==
  /\ pc = "done"
  /\ ai.accpass # NoneOpt
  /\ xr.call = "token"
  /\ xr.val = ErrBadState
  /\ res = Some(ErrBadState)
  /\ Len(sent) = 1
  /\ Len(rcvd) = 1

C19_ReqTkn ==
  pc \in AuthPcs =>
    \A i \in 1..Len(sent) :
      IsAccPassFrame(sent[i]) =>
        (get_str(sent[i].params, KeyReqTkn) = Some(ValTrue)
           <=> ai.otkn # NoneOpt)

\* the reply that makes authenticate persist a token: Ok to the
\* AccName/Pass frame, with a Tkn parameter, and an output path configured
TokenIssued ==
  /\ ReplyStep("pass_reply", TopicOk)
  /\ get_str(rcvd'[Len(rcvd')].tg.params, KeyTkn) # NoneOpt
  /\ ai.otkn # NoneOpt

C19_FileStep ==
  pc \in AuthPcs =>
    IF TokenIssued
      THEN disk' = [disk EXCEPT ![ai.otkn[1]] =
                      get_str(rcvd'[Len(rcvd')].tg.params, KeyTkn)]
      ELSE disk' = disk

\* C19: the AccName/Pass frame carries ReqTkn=True exactly when an output
\* path is configured; the output file holds the server's token verbatim
\* after a step exactly when that step is the successful password reply
\* with a token and an output path is configured, and in every other step
\* of authenticate the file system is left as it was.
C19_TokenFileWritten == []C19_ReqTkn /\ [][C19_FileStep]_vars

\* the step ends a wait for a reply, in either helper
AwaitsReply == pc \in {"token_reply", "pass_reply", "util_reply"} /\ pc' # pc

\* what the helper is to return for the decode event o; conv is what
\* becomes of a decoder error
ReplyOutcome(o, conv(_)) ==
  IF IsErr(o)
    THEN conv(o)
    ELSE IF IsTelegramOf(o, TopicOk)
           THEN OkVal(o.tg.params)
           ELSE IF IsTelegramOf(o, TopicFail)
                  THEN ServerError(o.tg.params)
                  ELSE ErrBadState

Unchanged(e) == e

\* what each helper makes of a decoder error: lib.rs converts the codec's
\* error into this crate's, clntif-util.rs has this crate's error already
Converted(e) == IF pc = "util_reply" THEN e ELSE from_blather(e)

ExchangeStep(conv(_)) ==
  AwaitsReply =>
    /\ sent' = sent
    /\ Len(sent) = Len(rcvd) + 1
    /\ Len(rcvd') <= Len(rcvd) + 1
    /\ Len(rcvd') = Len(rcvd) + 1 =>
         /\ SubSeq(rcvd', 1, Len(rcvd)) = rcvd
         /\ xr'.rr = ReplyOutcome(rcvd'[Len(rcvd')], conv)

\* C20 as stated: the helper sends one frame and consumes one decode event;
\* topic Ok returns the parameters, topic Fail fails with ServerError of
\* the parameters, any other topic, no topic or any other event fails with
\* BadState, and a decoder error is returned unchanged.
C20_ExchangeUnchanged == [][ExchangeStep(Unchanged)]_vars

\* C20: as above, except that the helper of lib.rs returns a decoder error
\* as Error::Blather carrying the error's message, while the helper of
\* clntif-util.rs returns it as it is.
C20_Exchange == [][ExchangeStep(Converted)]_vars

C20_Witness ==
  /\ pc = "done"
  /\ xr.call = "token"
  /\ Len(sent) = 1
  /\ Len(rcvd) = 1
  /\ rcvd[1] = BlatherError("IO")
  /\ xr.rr = [kind |-> "Err", err |-> "Blather", msg |-> "IO"]
  /\ res = Some(xr.rr)

\* the wait for a reply ends because the stream has ended
StreamEnded == AwaitsReply /\ rcvd' = rcvd

\* C21: when the stream ends while a reply is awaited, each expect_okfail
\* helper returns Error::Disconnected to its caller and none panics.
C21_DisconnectedAtStreamEnd ==
  [][StreamEnded => xr'.rr = ErrDisconnected]_vars

(***************************************************************************)
(* Claims about send and connsend (msg.rs).                                *)
(***************************************************************************)
\* the byte length of a section of the descriptor when send is called
ByteLen(sec) == IF sec = NoneOpt THEN Zero ELSE sec[1].len

HasKey(tg, k) == get_str(tg.params, k) # NoneOpt

\* send is running or has returned, and its Msg telegram has been written
MsgSent == xfer.call = "send" /\ sent # <<>>

\* C22: the Msg telegram carries _Ch always, Cmd exactly when the command
\* code is non-zero, MetaLen exactly when the metadata has a non-zero byte
\* length and Len exactly when the payload has, and nothing else; for a
\* descriptor without metadata and payload nothing but this telegram is
\* ever sent, one reply is awaited, and an Ok reply with XferId makes send
\* return that identifier.
C22_MsgFrame ==
  MsgSent =>
    /\ sent[1].topic = Some(TopicMsg)
    /\ get_str(sent[1].params, KeyCh) = Some(to_string(Sz(0, 0, xfer.ch)))
    /\ HasKey(sent[1], KeyCmd) <=> mi.cmd # 0
    /\ mi.cmd # 0 =>
         get_str(sent[1].params, KeyCmd) = Some(to_string(Sz(0, 0, mi.cmd)))
    /\ HasKey(sent[1], KeyMetaLen) <=> ByteLen(mi.meta) # Zero
    /\ HasKey(sent[1], KeyLen) <=> ByteLen(mi.payload) # Zero
    /\ \A p \in sent[1].params : p[1] \in {KeyCh, KeyCmd, KeyMetaLen, KeyLen}
    /\ (mi.meta = NoneOpt /\ mi.payload = NoneOpt) =>
         /\ Len(sent) = 1
         /\ Len(rcvd) <= 1
         /\ pc \in {"msg_reply", "send_done"}
         /\ (rcvd # <<>> /\ IsTelegramOf(rcvd[1], TopicOk)
               /\ HasKey(rcvd[1].tg, KeyXferId)) =>
              res = Some(OkVal(XferIdVal))

\* a section that is present with byte length zero
Empty(sec) == sec # NoneOpt /\ ByteLen(sec) = Zero

\* the number of sections of the descriptor that have content
NonEmptySections ==
  (IF ByteLen(mi.meta) # Zero THEN 1 ELSE 0)
    + (IF ByteLen(mi.payload) # Zero THEN 1 ELSE 0)

\* bytes of the section have been written to the connection
Transmitted(sec) ==
  \E i \in 1..Len(sent) :
    /\ ~IsFrame(sent[i])
    /\ sent[i].section = sec
    /\ sent[i].len # Zero

\* C23: a section that is present with byte length zero is treated like an
\* absent one: no length field for it in the Msg telegram, no bytes of it
\* transmitted, no acknowledgement awaited for it, and send returns the
\* transfer identifier after as many replies as the descriptor without it:
\* one for the Msg telegram and one for each section that has content.
C23_EmptyLikeAbsent ==
  xfer.call = "send" =>
    /\ Empty(mi.meta) =>
         /\ sent # <<>> => ~HasKey(sent[1], KeyMetaLen)
         /\ ~Transmitted("meta")
         /\ pc # "meta_reply"
    /\ Empty(mi.payload) =>
         /\ sent # <<>> => ~HasKey(sent[1], KeyLen)
         /\ ~Transmitted("payload")
         /\ pc # "payload_reply"
    /\ (pc = "send_done" /\ res[1].kind = "Ok") =>
         Len(rcvd) = 1 + NonEmptySections

\* the reply at position i of rcvd is a Telegram of topic Ok
OkReply(i) == IsTelegramOf(rcvd[i], TopicOk)

\* send is waiting for a reply
Awaiting == pc \in {"msg_reply", "meta_reply", "payload_reply"}

C24_Outstanding ==
  xfer.call = "send" =>
    /\ Len(rcvd) <= Len(sent)
    /\ Len(sent) <= Len(rcvd) + 1
    /\ Awaiting => Len(sent) = Len(rcvd) + 1

C24_Step ==
  xfer.call = "send" =>
    /\ Awaiting => sent' = sent
    /\ sent' # sent =>
         /\ Len(sent') = Len(sent) + 1
         /\ SubSeq(sent', 1, Len(sent)) = sent
         /\ rcvd' = rcvd
         /\ Len(rcvd) = Len(sent)
         /\ \A i \in 1..Len(rcvd) : OkReply(i)
         /\ LET w == sent'[Len(sent')]
            IN  IF IsFrame(w)
                  THEN sent = <<>>
                  ELSE IF w.section = "meta"
                         THEN Len(sent) = 1 /\ IsFrame(sent[1])
                         ELSE /\ IsFrame(sent[1])
                              /\ Len(sent) = IF mi.meta = NoneOpt THEN 1 ELSE 2
                              /\ mi.meta # NoneOpt =>
                                   (~IsFrame(sent[2])
                                      /\ sent[2].section = "meta")
    /\ (pc' = "send_done" /\ pc # pc' /\ res'[1].kind = "Ok") =>
         /\ sent' = sent
         /\ Len(rcvd') = Len(sent)
         /\ IsTelegramOf(rcvd'[Len(rcvd')], TopicOk)

\* C24: at most one exchange is outstanding: every write to the connection
\* happens when every earlier write has been answered with Ok, the
\* metadata after the reply to the Msg telegram, the payload after the
\* acknowledgement of the metadata; nothing is written while a reply is
\* awaited, and send returns the transfer identifier only with the
\* acknowledgement of the last write.
C24_OneExchange == []C24_Outstanding /\ [][C24_Step]_vars

C24_Witness ==
  /\ xfer.call = "send"
  /\ pc = "send_done"
  /\ res = Some(OkVal(XferIdVal))
  /\ Len(sent) = 3
  /\ Len(rcvd) = 3
  /\ sent[2] = Content("meta", One)
  /\ sent[3] = Content("payload", Sz(1, 0, 1))

\* the step reads an Ok reply to the Msg telegram that has no XferId
OkWithoutXferId ==
  /\ xfer.call \in {"send", "connsend"}
  /\ ReplyStep("msg_reply", TopicOk)
  /\ ~HasKey(rcvd'[Len(rcvd')].tg, KeyXferId)

C25_Step ==
  OkWithoutXferId =>
    /\ pc' = "send_done"
    /\ res' = Some(ErrMissingData)
    /\ xferid' = NoneOpt
    /\ sent' = sent

C25_After ==
  (pc = "send_done" /\ res = Some(ErrMissingData)) =>
    /\ xferid = NoneOpt
    /\ \A i \in 1..Len(sent) : IsFrame(sent[i])
    /\ \A i \in 1..Len(sent) :
         sent[i].topic = Some(TopicMsg) => i = Len(sent)

\* C25: an Ok reply to the Msg telegram without an XferId field makes send
\* fail with the MissingData error: no transfer identifier is returned and
\* no byte of metadata or payload is written afterwards.
C25_MissingXferId == [][C25_Step]_vars /\ []C25_After

C25_Witness ==
  /\ xfer.call = "send"
  /\ pc = "send_done"
  /\ res = Some(ErrMissingData)
  /\ mi.meta # NoneOpt
  /\ ByteLen(mi.meta) # Zero
  /\ mi.payload # NoneOpt
  /\ Len(sent) = 1
  /\ Len(rcvd) = 1
  /\ IsTelegramOf(rcvd[1], TopicOk)

\* positions of send
SendPcs ==
  {"msg_start", "msg_reply", "meta_send", "meta_reply", "payload_send",
   "payload_reply"}

C26_OkOnlyIfAllOk ==
  (xfer.call = "send" /\ pc = "send_done" /\ res[1].kind = "Ok") =>
    /\ rcvd # <<>>
    /\ Len(rcvd) = Len(sent)
    /\ \A i \in 1..Len(rcvd) : OkReply(i)
    /\ Some(res[1].val) = get_str(rcvd[1].tg.params, KeyXferId)

C26_Step ==
  (xfer.call \in {"send", "connsend"} /\ pc \in SendPcs /\ pc' # pc) =>
    /\ (Awaiting /\ rcvd' = rcvd) =>
         (pc' = "send_done" /\ res' = Some(ErrDisconnected) /\ sent' = sent)
    /\ (Awaiting /\ rcvd' # rcvd
          /\ ~IsTelegramOf(rcvd'[Len(rcvd')], TopicOk)) =>
         /\ pc' = "send_done"
         /\ res' = Some(ReplyOutcome(rcvd'[Len(rcvd')], from_blather))
         /\ IsErr(res'[1])
         /\ sent' = sent
    /\ (~Awaiting /\ pc' = "send_done") =>
         /\ IsErr(res'[1])
         /\ res'[1] \in {ErrIO, from_blather(BlatherError("IO"))}
         /\ rcvd' = rcvd
    /\ pc' \in SendPcs => res' = NoneOpt

\* C26: send returns a transfer identifier only if the reply to the Msg
\* telegram and the acknowledgement of every section written were all Ok;
\* the first Fail reply, unexpected reply, end of stream or I/O error ends
\* send with that error in the same step, with nothing further written and
\* nothing tried again.
C26_FirstErrorReturned == []C26_OkOnlyIfAllOk /\ [][C26_Step]_vars

C26_Witness ==
  /\ xfer.call = "send"
  /\ pc = "send_done"
  /\ Len(sent) = 2
  /\ Len(rcvd) = 2
  /\ IsTelegramOf(rcvd[2], TopicFail)
  /\ res = Some(ServerError(rcvd[2].tg.params))
  /\ mi.payload # NoneOpt
  /\ ByteLen(mi.payload) # Zero

IsMsgFrame(x) == IsFrame(x) /\ x.topic = Some(TopicMsg)
IsAuthFrame(x) == IsFrame(x) /\ x.topic = Some(TopicAuth)

C27_Order ==
  xfer.call = "connsend" =>
    /\ pc = "conn_start" => sent = <<>>
    /\ xfer.authinfo = NoneOpt =>
         /\ \A i \in 1..Len(sent) : ~IsAuthFrame(sent[i])
         /\ sent # <<>> => IsMsgFrame(sent[1])
    /\ xfer.authinfo # NoneOpt =>
         \A i \in 1..Len(sent) :
           IsMsgFrame(sent[i]) =>
             /\ i > 1
             /\ \A j \in 1..(i - 1) : IsAuthFrame(sent[j])
             /\ Len(rcvd) >= i - 1
             /\ OkReply(i - 1)
    /\ pc = "conn_done" =>
         /\ IsErr(res[1])
         /\ \A i \in 1..Len(sent) : ~IsMsgFrame(sent[i])

C27_Step ==
  xfer.call = "connsend" =>
    /\ pc = "done" =>
         /\ sent' = sent
         /\ IF res[1].kind = "Ok"
              THEN pc' = "msg_start"
              ELSE pc' = "conn_done" /\ res' = res
    /\ (sent' # sent /\ IsMsgFrame(sent'[Len(sent')])) => pc = "msg_start"
    /\ pc' = "msg_start" =>
         \/ pc = "conn_start" /\ xfer.authinfo = NoneOpt
         \/ pc = "done" /\ xfer.authinfo # NoneOpt /\ res[1].kind = "Ok"

\* C27: connsend opens the transport first; with an AuthInfo it completes
\* authenticate before the Msg telegram is written, and when authenticate
\* fails it returns that error and never writes a Msg telegram; without an
\* AuthInfo no Auth telegram is written and the Msg telegram is the first
\* frame on the connection.
C27_AuthBeforeMsg == []C27_Order /\ [][C27_Step]_vars

C27_Witness ==
  /\ xfer.call = "connsend"
  /\ xfer.authinfo # NoneOpt
  /\ pc = "conn_done"
  /\ Len(sent) = 2
  /\ IsTknFrame(sent[1])
  /\ IsAccPassFrame(sent[2])
  /\ Len(rcvd) = 2
  /\ IsTelegramOf(rcvd[2], TopicFail)
  /\ res = Some(ServerError(rcvd[2].tg.params))

(***************************************************************************)
(* Claims about the transfers to a sink and the skipped ranges.            *)
(***************************************************************************)

\* the last mode-switch call that took effect asked for a transfer to a
\* sink and returned Ok, and no write_all of the sink has failed since
SinkCall ==
  /\ sw.op \in {"expect_file", "expect_writer"}
  /\ sw.val = OkUnit
  /\ ~werr

\* the event that ends the transfer which the call sw asked for
SinkEvent ==
  IF sw.op = "expect_file" THEN EvFile(sw.arg[2]) ELSE EvWriteDone

SinkEvents(h) == SelectSeq(h, LAMBDA e : e.kind \in {"File", "WriteDone"})

C28_Sink ==
  SinkCall =>
    LET n == sw.arg[1]
    IN  /\ n > 0
        /\ IF codec.state \in {"File", "Writer"}
             THEN /\ evs = <<>>
                  /\ out \o buf = inq
                  /\ Len(out) + codec.bin_remain = n
                  /\ codec.bin_remain > 0
                  /\ ret.op = "decode" => buf = <<>>
             ELSE /\ codec.state = "Telegram"
                  /\ Len(inq) >= n
                  /\ out = SubSeq(inq, 1, n)
                  /\ evs # <<>>
                  /\ Head(evs) = SinkEvent
                  /\ Len(SinkEvents(evs)) = 1
        /\ ret.val.kind \in {"File", "WriteDone"}
             => buf = SubSeq(inq, n + 1, Len(inq))

C28_SinkStep ==
  (ret'.op = "decode" /\ SinkCall /\ codec.state \in {"File", "Writer"})
    => IF buf = <<>>
         THEN ret'.val = NeedMore /\ out' = out /\ codec' = codec
         ELSE LET m == Min(codec.bin_remain, Len(buf))
              IN  /\ out' = out \o SubSeq(buf, 1, m)
                  /\ buf' = SubSeq(buf, m + 1, Len(buf))
                  /\ ret'.val # ErrWrite
                       => ret'.val = IF m = codec.bin_remain
                                       THEN SinkEvent ELSE NeedMore

\* C28: after expect_file(path, n) or expect_writer(sink, n) has returned
\* Ok, n > 0, and as long as no write to the sink fails, whatever the
\* fragmentation: a decode call passes to the sink the bytes of the input
\* buffer that belong to the transfer, min(remaining, available) of them,
\* and removes them from the buffer; the bytes passed are the first bytes
\* of the stream in order, n of them in all; no event is emitted before
\* the n-th byte; the call that passes the n-th byte emits the one event
\* of the transfer, File with the path passed to expect_file or WriteDone,
\* and leaves the bytes after the n-th in the input buffer, with the state
\* Telegram again.
C28_SinkDelivery == []C28_Sink /\ [][C28_SinkStep]_vars

\* expect_file("q", MaxSize) was served in two decode calls or more, the
\* file has all its bytes, the File event names "q", and a byte that
\* follows is still in the input buffer
C28_Witness ==
  /\ sw = Call("expect_file", <<MaxSize, "q">>, OkUnit)
  /\ ~werr
  /\ partial
  /\ ret.val = EvFile("q")
  /\ Len(out) = MaxSize
  /\ buf # <<>>

\* the last mode-switch call that took effect was a skip that returned Ok
SkipCall == sw.op = "skip" /\ sw.val = OkUnit

\* what the codec does with the bytes s when it has just been constructed
\* with the line limit of c
FreshDecode(c, s) ==
  decode_telegram_lines(new_with_max_length(c.max_line_length), s)

C29_Skip ==
  SkipCall =>
    LET n == sw.arg[1]
        gone == Len(inq) - Len(buf)
    IN  /\ n > 0
        /\ out = <<>>
        /\ buf = SubSeq(inq, gone + 1, Len(inq))
        /\ IF codec.state = "Skip"
             THEN /\ evs = <<>>
                  /\ gone + codec.bin_remain = n
                  /\ codec.bin_remain > 0
                  /\ ret.op = "decode" => buf = <<>>
             ELSE /\ codec.state = "Telegram"
                  /\ gone >= n
                  /\ evs # <<>>
                  /\ Head(evs) = EvSkipDone
                  /\ Len(SelectSeq(evs, LAMBDA e : e.kind = "SkipDone")) = 1
        /\ ret.val = EvSkipDone
             => /\ gone = n
                /\ (codec.next_line_index = 0 /\ codec.tg = NewTelegram)
                     => LET o == decode(codec, buf, TRUE)
                            f == FreshDecode(codec, buf)
                        IN  /\ o.ret = f.ret
                            /\ o.buf = f.buf
                            /\ o.c.tg = f.c.tg

C29_SkipStep ==
  (ret'.op = "decode" /\ SkipCall /\ codec.state = "Skip")
    => IF buf = <<>>
         THEN ret'.val = NeedMore /\ codec' = codec /\ buf' = buf
         ELSE LET m == Min(codec.bin_remain, Len(buf))
              IN  /\ buf' = SubSeq(buf, m + 1, Len(buf))
                  /\ ret'.val = IF m = codec.bin_remain
                                  THEN EvSkipDone ELSE NeedMore
                  /\ codec' = [codec EXCEPT
                                 !.bin_remain = @ - m,
                                 !.state = IF m = codec.bin_remain
                                             THEN "Telegram" ELSE @]

\* C29: after skip(n) has returned Ok, n > 0, whatever the fragmentation:
\* a decode call removes min(remaining, available) bytes from the front of
\* the input buffer and changes nothing of the codec but the count and, at
\* the end, the state; nothing is passed to a sink and no event is emitted
\* before the n-th byte is removed; the call that removes the n-th byte
\* emits the one SkipDone event; exactly n bytes are gone then, the bytes
\* after them are still in the input buffer and the state is Telegram, so
\* that a codec which was between two blocks when skip was called decodes
\* the byte after the skipped range as the first byte of a block.
C29_SkipDelivery == []C29_Skip /\ [][C29_SkipStep]_vars

\* skip(MaxSize) was served in two decode calls or more by a codec that
\* was between two blocks, and the SkipDone event left the byte that
\* follows in the input buffer
C29_Witness ==
  /\ sw = Call("skip", Some(MaxSize), OkUnit)
  /\ partial
  /\ ret.val = EvSkipDone
  /\ codec.next_line_index = 0
  /\ codec.tg = NewTelegram
  /\ buf # <<>>

\* C30: the MetaLen value of the Msg telegram is the byte length of the
\* metadata content, in decimal, for every content size, also above
\* 2^32 - 1: the conversion to the 32-bit value changes no size, and no
\* non-empty metadata goes undeclared.
C30_MetaLenExact ==
  (MsgSent /\ ByteLen(mi.meta) # Zero)
    => get_str(sent[1].params, KeyMetaLen) = Some(to_string(ByteLen(mi.meta)))

(***************************************************************************)
(* Claims about failing calls and about the scan offset.                   *)
(***************************************************************************)

\* a file transfer always has where to write and what to report
C31_FileHasSink ==
  /\ codec.state = "File"
       => codec.writer # NoneOpt /\ codec.pathname # NoneOpt
  /\ ret.val # ErrMissingPathname

\* an expect_file call that returns an error changes nothing of the codec
C31_ErrorStep ==
  (ret'.op = "expect_file" /\ IsErr(ret'.val))
    => /\ codec'.state = codec.state
       /\ codec'.bin_remain = codec.bin_remain
       /\ codec'.writer = codec.writer
       /\ codec'.pathname = codec.pathname

\* C31 as stated: an expect_file call that returns an error, for a size of
\* zero or because the file cannot be created, leaves state, counter, sink
\* and path of the codec as they were; the codec is never in state File
\* without a sink and a path; decode never returns the 'Missing pathname'
\* BadState error.
C31_FailedExpectFile == []C31_FileHasSink /\ [][C31_ErrorStep]_vars

\* in a text state the scan offset lies within the input buffer and within
\* the line limit, and no byte before it is a line feed
C32_Offset ==
  /\ ret.val # Panic
  /\ codec.state \in TextStates
       => /\ codec.next_line_index <= Len(buf)
          /\ codec.next_line_index <= codec.max_line_length
          /\ \A i \in 1..codec.next_line_index : buf[i] # LF

C32_OffsetStep ==
  (ret'.op = "decode" /\ codec.state \in TextStates)
    => /\ codec'.next_line_index <= Len(buf')
       /\ codec'.next_line_index <= codec'.max_line_length
       /\ (IsEvent(ret'.val) \/ (IsErr(ret'.val) /\ Len(buf') < Len(buf)))
            => codec'.next_line_index = 0
       /\ ret'.val = NeedMore => codec'.next_line_index = Len(buf')

\* C32: when the caller only appends to the input buffer between decode
\* calls and switches mode only on a new codec or right after an event:
\* every decode call made in a text state returns (the newline scan never
\* starts beyond the end of the buffer) with a scan offset that is at most
\* the length of the unconsumed buffer and at most max_line_length, that is
\* 0 when the call returns an event, or an error after it has consumed a
\* line, and that is the length of what is left in the buffer when the
\* call asks for more data; no byte before
\* the offset is a line feed, so the scan skips only bytes it has examined.
C32_ScanOffset == []C32_Offset /\ [][C32_OffsetStep]_vars

\* the second mode switch, made after an event, was to Params, and a decode
\* call has scanned a partial line there
C32_Witness ==
  /\ nsw = 2
  /\ sw.op = "expect_params"
  /\ codec.state = "Params"
  /\ ret = Call("decode", NoneOpt, NeedMore)
  /\ codec.next_line_index > 0
  /\ codec.next_line_index = Len(buf)

(***************************************************************************)
(* Claims about what authenticate and send leave behind.                   *)
(***************************************************************************)

\* the server has answered an Auth frame of this call with Ok
AuthAccepted == \E i \in 1..Len(rcvd) : IsTelegramOf(rcvd[i], TopicOk)

\* C33 as stated: authenticate returns an error only when no Auth exchange
\* was answered with Ok; once the server has accepted the token or the
\* account and passphrase, authenticate returns Ok, also when it has to
\* write the issued token to the output path.
C33_OkWhenAccepted ==
  (pc = "done" /\ AuthAccepted) => res[1].kind = "Ok"

\* the length that the Msg telegram declares under key: a section with no
\* length parameter is declared empty
Declared(key) ==
  IF HasKey(sent[1], key)
    THEN get_str(sent[1].params, key)[1]
    ELSE to_string(Zero)

\* send_content returns Ok for the section that is due
SectionWritten ==
  /\ pc \in {"meta_send", "payload_send"}
  /\ pc' \in {"meta_reply", "payload_reply"}

\* C34 as stated: for each section that send transmits, the number of
\* content bytes written to the connection is the length that the Msg
\* telegram declares for it, MetaLen for the metadata and Len for the
\* payload, for every content kind, also for a file whose size is read
\* before it is streamed and which may change in between.
C34_WrittenAsDeclared ==
  [][SectionWritten
       => to_string(sent'[Len(sent')].len)
            = Declared(IF pc = "meta_send" THEN KeyMetaLen ELSE KeyLen)]_vars

====
